---- MODULE Spec2Model ----
(***************************************************************************)
(* The example scripts of the repository as one state machine.  Every      *)
(* source file is a self-contained script; `script` says which one runs,   *)
(* `pc` is its position.  The model invoker (llm), the clock and the       *)
(* replies of the model are the environment: their outcomes are chosen     *)
(* with \E at the step that calls them.                                    *)
(*                                                                         *)
(* Text is a sequence of chunks (strings).  JSON text is a sequence of     *)
(* tokens: "{", "}", ",", ":", "null", "true", "false", numbers and string *)
(* literals.                                                               *)
(***************************************************************************)
EXTENDS Integers, Sequences, FiniteSets, TLC

VARIABLES
    script,     \* the example file being executed
    pc,         \* position of the script
    step,       \* steps of the running chain.invoke that are through
    log,        \* steps executed so far, in order: <<step, branch>>
    stdout,     \* what print() has written: <<label, value>>
    error,      \* the uncaught exception that ended the script, or NoError
    template,   \* the template string
    prompt,     \* the prompt template built from it: literal parts and placeholders
    input,      \* the variables handed to format_messages / chain.invoke
    parts,      \* the formatted template, part by part: literal text or inserted value
    messages,   \* the formatted prompt
    response,   \* the message the model returned
    thought,    \* 10_agents.py: the parsed decision; 11_routing.py: the classification
    result,     \* the script's `result`
    toolCalls,  \* tool invocations so far: [tool, args]
    branch,     \* 06_1_parallel_runnable.py: the branches of parallel_chain
    output,     \* parallel_chain.invoke: the branch results collected so far
    part,       \* which part of the script is running (its first, second, ...)
    lru_cache,  \* 06_dependency_injection.py: the cache of get_ollama_llm
    instances,  \* ChatOllama clients constructed so far
    requests,   \* the HTTP requests being handled, each by its own thread
    db,         \* the rows of the SQLite table of the script, in id order
    conn,       \* 07_memory.py: the runs of the script that share the database
    history,    \* 07_memory.py: what get_history returned
    workflow_id,\* 13_langgraph.py: the id of this run
    classification, \* 13_langgraph.py: the category the first node found
    service,    \* 05_service_layer.py: the OllamaService object
    invocations,\* 05_service_layer.py: the payloads llm.invoke was called with
    retrieved   \* 12_document_retrieval.py: what the search returned

\* the state of the HTTP service
httpVars == <<lru_cache, instances, requests>>

\* the SQLite database and the service object
storeVars == <<db, conn, history, workflow_id, classification, service, invocations, retrieved>>

vars == <<script, pc, step, log, stdout, error, template, prompt, input, parts, messages,
          response, thought, result, toolCalls, branch, output, part, httpVars, storeVars>>

-----------------------------------------------------------------------------
(* JSON values as the parsers hand them out.                               *)

JNull == [t |-> "null", s |-> "", o |-> {}]
JStr(x) == [t |-> "str", s |-> x, o |-> {}]
JNum(x) == [t |-> "num", s |-> x, o |-> {}]
JBool(x) == [t |-> "bool", s |-> x, o |-> {}]
\* an object one level down, as a set of <<name, token>> pairs: each member
\* is kept as the JSON token of its value
JObj(members) == [t |-> "obj", s |-> "", o |-> members]

\* Python truthiness of a parsed value: None, "" and {} are falsy
Truthy(v) ==
    CASE v.t = "null" -> FALSE
      [] v.t = "str" -> v.s # ""
      [] v.t = "num" -> v.s # "0"
      [] v.t = "bool" -> v.s = "true"
      [] OTHER -> v.o # {}

NoDict == [k \in {} |-> JNull]
\* an uncaught exception: its class and what its message names
Exc(kind, message) == [kind |-> kind, message |-> message]
NoError == Exc("none", <<>>)

-----------------------------------------------------------------------------
(* JSON text: writing an object as tokens, and reading tokens back.        *)

Punctuation == {"{", "}", ",", ":"}
Literals == {"null", "true", "false"}
\* the number tokens that occur; every other token that is neither
\* punctuation nor a literal is a string literal (written in quotes)
Numbers == {"7", "0.95", "2500"}
IsStringToken(tok) == tok \notin Punctuation \cup Literals \cup Numbers

\* a reader that takes every scalar but null for text
ScalarAsText(tok) == IF tok = "null" THEN JNull ELSE JStr(tok)

\* json.loads of a scalar token
Scalar(tok) ==
    CASE tok = "null" -> JNull
      [] tok \in {"true", "false"} -> JBool(tok)
      [] tok \in Numbers -> JNum(tok)
      [] OTHER -> JStr(tok)

Put(d, k, v) == [x \in DOMAIN d \cup {k} |-> IF x = k THEN v ELSE d[x]]

RECURSIVE WriteMembers(_)
\* the members of a nested object, as tokens
WriteMembers(members) ==
    IF members = {} THEN <<>>
    ELSE LET m == CHOOSE x \in members : TRUE
             rest == members \ {m}
         IN  <<m[1], ":", m[2]>>
             \o (IF rest = {} THEN <<>> ELSE <<",">> \o WriteMembers(rest))

WriteValue(v) ==
    CASE v.t = "null" -> <<"null">>
      [] v.t = "obj" -> <<"{">> \o WriteMembers(v.o) \o <<"}">>
      [] OTHER -> <<v.s>>

RECURSIVE WritePairs(_)
WritePairs(pairs) ==
    IF pairs = <<>> THEN <<>>
    ELSE <<pairs[1][1], ":">> \o WriteValue(pairs[1][2])
         \o (IF Len(pairs) = 1 THEN <<>> ELSE <<",">> \o WritePairs(Tail(pairs)))

\* the JSON text of an object whose members are written in the given order
WriteJson(pairs) == <<"{">> \o WritePairs(pairs) \o <<"}">>

ParseFail == [ok |-> FALSE, val |-> NoDict, next |-> 0]

RECURSIVE ParseMembers(_, _, _, _)
\* Reads `key : value` members from token i on, up to the closing brace.
\* A later duplicate of a key replaces the earlier one.  Text that ends
\* after a member, before the closing brace, is completed (the parser
\* repairs partial JSON).  Nested objects go one level deep and hold scalars.
ParseMembers(toks, i, acc, depth) ==
    IF i > Len(toks) THEN [ok |-> TRUE, val |-> acc, next |-> i]
    ELSE IF toks[i] = "}" /\ acc = NoDict THEN [ok |-> TRUE, val |-> acc, next |-> i + 1]
    ELSE IF ~IsStringToken(toks[i]) \/ i + 2 > Len(toks) \/ toks[i + 1] # ":" THEN ParseFail
    ELSE
      LET k == toks[i]
          v == toks[i + 2]
          inner == IF v = "{" /\ depth = 0
                     THEN ParseMembers(toks, i + 3, NoDict, 1)
                     ELSE ParseFail
          ok == \/ v \notin Punctuation
                \/ v = "{" /\ depth = 0 /\ inner.ok
          val == IF v = "{"
                   THEN JObj({<<m, WriteValue(inner.val[m])[1]>> : m \in DOMAIN inner.val})
                   ELSE Scalar(v)
          n == IF v = "{" THEN inner.next ELSE i + 3
          acc2 == Put(acc, k, val)
      IN  IF ~ok THEN ParseFail
          ELSE IF n > Len(toks) THEN [ok |-> TRUE, val |-> acc2, next |-> n]
          ELSE IF toks[n] = "}" THEN [ok |-> TRUE, val |-> acc2, next |-> n + 1]
          ELSE IF toks[n] = "," /\ n + 1 <= Len(toks) /\ IsStringToken(toks[n + 1])
                 THEN ParseMembers(toks, n + 1, acc2, depth)
          ELSE ParseFail

\* JsonOutputParser.parse: the dict read from the text, or a failure
\* (OutputParserException).  The schema given as pydantic_object is used for
\* the format instructions only: the dict is not validated against it and
\* no default is filled in.
JsonOutputParser(content) ==
    IF content = <<>> \/ content[1] # "{" THEN ParseFail
    ELSE ParseMembers(content, 2, NoDict, 0)

\* StrOutputParser.parse: the text of the message
StrOutputParser(msg) == msg.content

-----------------------------------------------------------------------------
(* Prompt templates.  A template string is text in which "{" name "}" is a *)
(* placeholder and "{{", "}}" stand for a literal brace.                   *)

Lit(x) == [k |-> "lit", x |-> x]
Field(x) == [k |-> "field", x |-> x]

RECURSIVE TemplateText(_)
\* the template string of a sequence of literal parts and placeholders
TemplateText(pieces) ==
    IF pieces = <<>> THEN <<>>
    ELSE LET p == pieces[1]
         IN  (CASE p.k = "field" -> <<"{", p.x, "}">>
                [] p.k = "lit" /\ p.x \in {"{", "}"} -> <<p.x, p.x>>
                [] OTHER -> <<p.x>>)
             \o TemplateText(Tail(pieces))

TemplateFail == [ok |-> FALSE, pieces |-> <<>>]

RECURSIVE ParseTemplate(_, _, _)
\* ChatPromptTemplate.from_template: the literal parts and the placeholders
\* of a template string, left to right; a single brace is an error
ParseTemplate(text, i, acc) ==
    IF i > Len(text) THEN [ok |-> TRUE, pieces |-> acc]
    ELSE IF text[i] = "{" THEN
        IF i + 1 <= Len(text) /\ text[i + 1] = "{"
          THEN ParseTemplate(text, i + 2, Append(acc, Lit("{")))
        ELSE IF i + 2 <= Len(text) /\ text[i + 1] \notin {"{", "}"} /\ text[i + 2] = "}"
          THEN ParseTemplate(text, i + 3, Append(acc, Field(text[i + 1])))
        ELSE TemplateFail
    ELSE IF text[i] = "}" THEN
        IF i + 1 <= Len(text) /\ text[i + 1] = "}"
          THEN ParseTemplate(text, i + 2, Append(acc, Lit("}")))
        ELSE TemplateFail
    ELSE ParseTemplate(text, i + 1, Append(acc, Lit(text[i])))

from_template(text) == ParseTemplate(text, 1, <<>>)

\* the placeholder set of a parsed template (its input_variables)
InputVariables(pieces) == {pieces[i].x : i \in {j \in DOMAIN pieces : pieces[j].k = "field"}}

RECURSIVE FormatLenient(_, _, _)
\* a formatter that leaves a placeholder without a value in the text
FormatLenient(pieces, kwargs, acc) ==
    IF pieces = <<>> THEN [ok |-> TRUE, out |-> acc, missing |-> ""]
    ELSE LET p == pieces[1]
         IN  IF p.k = "lit"
               THEN FormatLenient(Tail(pieces), kwargs,
                                  Append(acc, [k |-> "lit", text |-> <<p.x>>]))
             ELSE IF p.x \in DOMAIN kwargs
               THEN FormatLenient(Tail(pieces), kwargs,
                                  Append(acc, [k |-> "val", text |-> kwargs[p.x]]))
             ELSE FormatLenient(Tail(pieces), kwargs,
                                Append(acc, [k |-> "lit", text |-> <<"{", p.x, "}">>]))

RECURSIVE FormatPieces(_, _, _)
\* Formatter.vformat: substitutes the placeholders left to right, each by the
\* value given for its name; the first placeholder without a value ends the
\* formatting with KeyError(name).  Values are inserted as they are: they are
\* not scanned for placeholders again.
FormatPieces(pieces, kwargs, acc) ==
    IF pieces = <<>> THEN [ok |-> TRUE, out |-> acc, missing |-> ""]
    ELSE LET p == pieces[1]
         IN  IF p.k = "lit"
               THEN FormatPieces(Tail(pieces), kwargs,
                                 Append(acc, [k |-> "lit", text |-> <<p.x>>]))
             ELSE IF p.x \in DOMAIN kwargs
               THEN FormatPieces(Tail(pieces), kwargs,
                                 Append(acc, [k |-> "val", text |-> kwargs[p.x]]))
             ELSE [ok |-> FALSE, out |-> acc, missing |-> p.x]

RECURSIVE Flatten(_)
\* the text of a formatted template: its parts one after the other
Flatten(out) == IF out = <<>> THEN <<>> ELSE out[1].text \o Flatten(Tail(out))

\* the single human message a from_template prompt produces
HumanMessage(content) == [role |-> "human", content |-> content]

RECURSIVE FormatOnce(_, _, _, _)
\* a formatter that substitutes only the first occurrence of a placeholder
FormatOnce(pieces, kwargs, acc, seen) ==
    IF pieces = <<>> THEN [ok |-> TRUE, out |-> acc, missing |-> ""]
    ELSE LET p == pieces[1]
         IN  IF p.k = "lit"
               THEN FormatOnce(Tail(pieces), kwargs,
                               Append(acc, [k |-> "lit", text |-> <<p.x>>]), seen)
             ELSE IF p.x \in seen
               THEN FormatOnce(Tail(pieces), kwargs,
                               Append(acc, [k |-> "lit", text |-> <<"{", p.x, "}">>]), seen)
             ELSE IF p.x \in DOMAIN kwargs
               THEN FormatOnce(Tail(pieces), kwargs,
                               Append(acc, [k |-> "val", text |-> kwargs[p.x]]),
                               seen \cup {p.x})
             ELSE [ok |-> FALSE, out |-> acc, missing |-> p.x]

format_messages_once(pieces, kwargs) ==
    LET f == FormatOnce(pieces, kwargs, <<>>, {})
    IN  [ok |-> f.ok, missing |-> f.missing, parts |-> f.out,
         messages |-> IF f.ok THEN <<HumanMessage(Flatten(f.out))>> ELSE <<>>]

\* prompt_template.format_messages(**kwargs)
format_messages(pieces, kwargs) ==
    LET f == FormatPieces(pieces, kwargs, <<>>)
    IN  [ok |-> f.ok, missing |-> f.missing, parts |-> f.out,
         messages |-> IF f.ok THEN <<HumanMessage(Flatten(f.out))>> ELSE <<>>]

-----------------------------------------------------------------------------
(* Bounds and the sets the inputs are drawn from.                          *)

MaxPieces == 3      \* literal parts and placeholders of a drawn template

Names == {"x", "y"}
PieceAlphabet == {Lit("a"), Lit("{"), Lit("}")} \cup {Field(n) : n \in Names}
PieceSeqs == UNION {[1..n -> PieceAlphabet] : n \in 0..MaxPieces}

\* template strings: every well-formed one up to the bound, and two with a
\* single brace
TemplateTexts == {TemplateText(p) : p \in PieceSeqs} \cup {<<"a", "{">>, <<"}", "x">>}

\* values of template variables; the second holds braces
Values == {<<"v">>, <<"{", "x", "}">>}
Kwargs == UNION {[D -> Values] : D \in SUBSET Names}

\* what the model may answer to a plain prompt
Replies == {<<"r1">>, <<"r2">>, <<>>}

\* the model server cannot be reached or answers with an error
ModelUnavailable == Exc("ModelUnavailable", <<"connection refused">>)

NoMessage == [content |-> <<>>]
AIMessage(content) == [content |-> content]

Terminal == {"done", "failed"}

-----------------------------------------------------------------------------
(* 03_prompt_templates.py, 03_1_multi_variable_prompts.py and the first    *)
(* part of 04_prompt_templates.py: from_template, format_messages,         *)
(* llm.invoke, print.                                                      *)

TplScript == "03_prompt_templates"

TplInit ==
    /\ script = TplScript
    /\ pc = "start"
    /\ template \in TemplateTexts
    /\ input \in Kwargs
    /\ prompt = <<>>

TplFromTemplate ==
    /\ script = TplScript /\ pc = "start"
    /\ LET t == from_template(template)
       IN  IF t.ok
             THEN prompt' = t.pieces /\ pc' = "built" /\ error' = error
             ELSE prompt' = prompt /\ pc' = "failed" /\ error' = Exc("ValueError", template)
    /\ UNCHANGED <<part, httpVars, storeVars, script, step, log, stdout, template, input, parts, messages, response,
                   thought, result, toolCalls, branch, output>>

TplFormat ==
    /\ script = TplScript /\ pc = "built"
    /\ LET f == format_messages(prompt, input)
       IN  /\ parts' = f.parts
           /\ messages' = f.messages
           /\ log' = Append(log, <<"prompt", "main">>)
           /\ IF f.ok
                THEN pc' = "formatted" /\ error' = error
                ELSE pc' = "failed" /\ error' = Exc("KeyError", <<f.missing>>)
    /\ UNCHANGED <<part, httpVars, storeVars, script, step, stdout, template, prompt, input, response, thought, result,
                   toolCalls, branch, output>>

TplLlm ==
    /\ script = TplScript /\ pc = "formatted"
    /\ log' = Append(log, <<"llm", "main">>)
    /\ \/ \E r \in Replies :
            response' = AIMessage(r) /\ pc' = "replied" /\ error' = error
       \/ response' = response /\ pc' = "failed" /\ error' = ModelUnavailable
    /\ UNCHANGED <<part, httpVars, storeVars, script, step, stdout, template, prompt, input, parts, messages, thought,
                   result, toolCalls, branch, output>>

TplPrint ==
    /\ script = TplScript /\ pc = "replied"
    /\ stdout' = Append(stdout, <<"", response.content>>)
    /\ pc' = "done"
    /\ UNCHANGED <<part, httpVars, storeVars, script, step, log, error, template, prompt, input, parts, messages,
                   response, thought, result, toolCalls, branch, output>>

-----------------------------------------------------------------------------
(* chain = prompt | llm | parser, and chain.invoke(input): the steps of    *)
(* the sequence run one after the other, each on the output of the one     *)
(* before it.  05_chains.py, 09_functions.py and 10_agents.py build such a *)
(* chain; they differ in the prompt, the parser and what follows.          *)

ChainScript == "05_chains"
FnScript == "09_functions"
AgentScript == "10_agents"
ChainScripts == {ChainScript, FnScript, AgentScript}

\* a sequence that calls the model before the prompt is formatted
LlmBeforePrompt == <<"llm", "prompt", "parser">>

\* prompt | llm | parser
SequenceSteps == <<"prompt", "llm", "parser">>

\* the step chain.invoke runs next, "" when the sequence is through
NextStep == IF step < Len(SequenceSteps) THEN SequenceSteps[step + 1] ELSE ""

AfterStep == IF step + 1 = Len(SequenceSteps) THEN "invoked" ELSE "invoke"

Seq5(a, b, c, d, e) == {p1 \o p2 \o p3 \o p4 \o p5 :
                          p1 \in a, p2 \in b, p3 \in c, p4 \in d, p5 \in e}
Opt(key, values) == {<<>>} \cup {<< <<key, v>> >> : v \in values}

\* decisions the model may write for the agent: every field present or left
\* out, tool names inside and outside the registry
AgentPairs ==
    Seq5(Opt("thought", {JStr("t")}),
         Opt("action", {JStr("use_tool"), JStr("final_answer"), JStr("think")}),
         Opt("tool_name", {JNull, JStr(""), JStr("calculator"), JStr("get_date_info"),
                           JStr("web_search")}),
         Opt("tool_input", {JNull, JObj({}), JObj({<<"expression", "sqrt(144)">>}),
                            JObj({<<"expression", "1/0">>})}),
         Opt("final_answer", {JNull, JStr("42")}))

\* function calls the model may write for the function router
FnPairs ==
    {p1 \o p2 :
        p1 \in Opt("function_name", {JNull, JStr("get_weather"), JStr("calculate_date"),
                                     JStr("get_stock_price")}),
        p2 \in Opt("arguments", {JNull, JObj({}), JObj({<<"city", "London">>}),
                                 JObj({<<"city", "Paris">>}),
                                 JObj({<<"days_from_now", "3">>})})}

Prose == <<"I", "think", "42">>

\* a reply cut off before its closing brace
CutOff == <<"{", "thought", ":", "t", ",", "action", ":", "final_answer">>

ChainReplies(s) ==
    CASE s = AgentScript -> {WriteJson(p) : p \in AgentPairs} \cup {Prose, CutOff}
      [] s = FnScript -> {WriteJson(p) : p \in FnPairs} \cup {Prose}
      [] OTHER -> Replies

Topics == {<<"cats">>, <<"Python programming">>}
Questions == {<<"What is the square root of 144?">>, <<"What day is it?">>}

\* parser.get_format_instructions(): text that shows the JSON schema, braces
\* included
FormatInstructions == <<"Return JSON:", "{", "properties", "}">>

ChainPromptOf(s) ==
    CASE s = AgentScript ->
           <<Lit("You are a helpful assistant with access to tools."),
             Field("format_instructions"), Lit("Question: "), Field("question")>>
      [] s = FnScript ->
           <<Lit("You are a function router."),
             Field("format_instructions"), Lit("User request: "), Field("user_input")>>
      [] OTHER -> <<Lit("Tell me a short fact about "), Field("topic")>>

ChainInputs(s) ==
    CASE s = AgentScript ->
           {[format_instructions |-> FormatInstructions, question |-> q] : q \in Questions}
      [] s = FnScript ->
           {[format_instructions |-> FormatInstructions, user_input |-> q] : q \in Questions}
      [] OTHER -> {[topic |-> t] : t \in Topics}

ChainInit ==
    /\ script \in ChainScripts
    /\ pc = "invoke"
    /\ template = TemplateText(ChainPromptOf(script))
    /\ prompt = ChainPromptOf(script)
    /\ input \in ChainInputs(script)

\* step 1 of the sequence: prompt.invoke(input)
PromptStep ==
    /\ script \in ChainScripts /\ pc = "invoke" /\ NextStep = "prompt"
    /\ step' = step + 1
    /\ LET f == format_messages(prompt, input)
       IN  /\ parts' = f.parts
           /\ messages' = f.messages
           /\ log' = Append(log, <<"prompt", "main">>)
           /\ IF f.ok
                THEN pc' = AfterStep /\ error' = error
                ELSE pc' = "failed" /\ error' = Exc("KeyError", <<f.missing>>)
    /\ UNCHANGED <<part, httpVars, storeVars, script, stdout, template, prompt, input, response, thought, result,
                   toolCalls, branch, output>>

\* step 2: llm.invoke(messages), one blocking call to the model server
LlmStep ==
    /\ script \in ChainScripts /\ pc = "invoke" /\ NextStep = "llm"
    /\ step' = step + 1
    /\ log' = Append(log, <<"llm", "main">>)
    /\ \/ \E r \in ChainReplies(script) :
            response' = AIMessage(r) /\ pc' = AfterStep /\ error' = error
       \/ response' = response /\ pc' = "failed" /\ error' = ModelUnavailable
    /\ UNCHANGED <<part, httpVars, storeVars, script, stdout, template, prompt, input, parts, messages, thought,
                   result, toolCalls, branch, output>>

\* step 3: the output parser on the model's message
ParserStep ==
    /\ script \in ChainScripts /\ pc = "invoke" /\ NextStep = "parser"
    /\ step' = step + 1
    /\ log' = Append(log, <<"parser", "main">>)
    /\ IF script = ChainScript
         THEN /\ result' = StrOutputParser(response)
              /\ pc' = AfterStep
              /\ UNCHANGED <<thought, error>>
         ELSE LET j == JsonOutputParser(response.content)
              IN  /\ pc' = IF j.ok THEN AfterStep ELSE "failed"
                  /\ error' = IF j.ok THEN error
                              ELSE Exc("OutputParserException", response.content)
                  /\ thought' = IF j.ok /\ script = AgentScript THEN j.val ELSE thought
                  /\ result' = IF j.ok /\ script = FnScript THEN j.val ELSE result
    /\ UNCHANGED <<part, httpVars, storeVars, script, stdout, template, prompt, input, parts, messages, response,
                   toolCalls, branch, output>>

\* 05_chains.py: print(result)
ChainPrint ==
    /\ script = ChainScript /\ pc = "invoked"
    /\ stdout' = Append(stdout, <<"", result>>)
    /\ pc' = "done"
    /\ UNCHANGED <<part, httpVars, storeVars, script, step, log, error, template, prompt, input, parts, messages,
                   response, thought, result, toolCalls, branch, output>>

-----------------------------------------------------------------------------
(* 10_agents.py: the tools, the prints and the dispatch after the chain.   *)

\* the clock read by datetime.now()
Dates == {<<"2026-01-05", "Monday">>, <<"2026-01-06", "Tuesday">>}

\* calculator: eval of the expression in a namespace with sqrt, pi and abs;
\* a call without the expression argument fails validation
calculator(args) ==
    LET given == {m \in args : m[1] = "expression"}
        e == (CHOOSE m \in given : TRUE)[2]
    IN  IF given = {} THEN [ok |-> FALSE, val |-> <<>>, err |-> Exc("ValidationError", <<>>)]
        ELSE IF e = "sqrt(144)" THEN [ok |-> TRUE, val |-> <<"12.0">>, err |-> NoError]
        ELSE [ok |-> FALSE, val |-> <<>>, err |-> Exc("ZeroDivisionError", <<>>)]

\* get_date_info: date and weekday of now
get_date_info(now) == [ok |-> TRUE, val |-> now, err |-> NoError]

\* tools = {"calculator": calculator, "get_date_info": get_date_info}
tools == {"calculator", "get_date_info"}

InvokeTool(name, args, now) ==
    IF name = "calculator" THEN calculator(args) ELSE get_date_info(now)

\* lines 81-83: three prints; the second and third subscript the dict
AgentPrint ==
    /\ script = AgentScript /\ pc = "invoked"
    /\ LET q == <<"Question", input.question>>
       IN  IF "thought" \notin DOMAIN thought
             THEN /\ stdout' = Append(stdout, q)
                  /\ pc' = "failed" /\ error' = Exc("KeyError", <<"thought">>)
           ELSE IF "action" \notin DOMAIN thought
             THEN /\ stdout' = stdout \o <<q, <<"Agent thought", WriteValue(thought["thought"])>> >>
                  /\ pc' = "failed" /\ error' = Exc("KeyError", <<"action">>)
           ELSE /\ stdout' = stdout \o <<q, <<"Agent thought", WriteValue(thought["thought"])>>,
                                         <<"Action", WriteValue(thought["action"])>> >>
                /\ pc' = "printed" /\ error' = error
    /\ UNCHANGED <<part, httpVars, storeVars, script, step, log, template, prompt, input, parts, messages, response,
                   thought, result, toolCalls, branch, output>>

\* line 86: thought["action"] == "use_tool" and thought["tool_name"]
WantsTool(d) == d["action"] = JStr("use_tool") /\ Truthy(d["tool_name"])

\* thought["tool_input"] or {}
ToolInputOrEmpty(d) == IF Truthy(d["tool_input"]) THEN d["tool_input"].o ELSE {}

\* a dispatch that goes back for a new decision round
AfterToolFedBack == "invoke"

\* line 89 is the last statement: the script ends when the tool has returned
AfterTool == "done"

\* lines 86-89: the tool is looked up in the registry and invoked, once
AgentDispatch ==
    /\ script = AgentScript /\ pc = "printed"
    /\ IF thought["action"] # JStr("use_tool")
         THEN pc' = "done" /\ UNCHANGED <<log, stdout, error, toolCalls>>
       ELSE IF "tool_name" \notin DOMAIN thought
         THEN /\ pc' = "failed" /\ error' = Exc("KeyError", <<"tool_name">>)
              /\ UNCHANGED <<log, stdout, toolCalls>>
       ELSE IF ~WantsTool(thought)
         THEN pc' = "done" /\ UNCHANGED <<log, stdout, error, toolCalls>>
       ELSE IF thought["tool_name"].s \notin tools
         THEN /\ pc' = "failed" /\ error' = Exc("KeyError", <<thought["tool_name"].s>>)
              /\ UNCHANGED <<log, stdout, toolCalls>>
       ELSE IF "tool_input" \notin DOMAIN thought
         THEN /\ pc' = "failed" /\ error' = Exc("KeyError", <<"tool_input">>)
              /\ UNCHANGED <<log, stdout, toolCalls>>
       ELSE \E now \in Dates :
              LET name == thought["tool_name"].s
                  args == ToolInputOrEmpty(thought)
                  r == InvokeTool(name, args, now)
              IN  /\ toolCalls' = Append(toolCalls, [tool |-> name, args |-> args])
                  /\ log' = Append(log, <<"tool", name>>)
                  /\ IF r.ok
                       THEN /\ stdout' = Append(stdout, <<"Tool result", r.val>>)
                            /\ pc' = AfterTool /\ error' = error
                       ELSE /\ stdout' = stdout
                            /\ pc' = "failed" /\ error' = r.err
    /\ UNCHANGED <<part, httpVars, storeVars, script, step, template, prompt, input, parts, messages, response, thought,
                   result, branch, output>>

-----------------------------------------------------------------------------
(* 09_functions.py: the functions, the prints and the dispatch.            *)

\* get_weather: mock data by lower-cased city, a default for other cities
get_weather(args) ==
    LET given == {m \in args : m[1] = "city"}
        city == (CHOOSE m \in given : TRUE)[2]
    IN  IF given = {} THEN [ok |-> FALSE, val |-> <<>>, err |-> Exc("ValidationError", <<>>)]
        ELSE IF city \in {"London", "london"}
          THEN [ok |-> TRUE, val |-> <<"58", "cloudy">>, err |-> NoError]
        ELSE [ok |-> TRUE, val |-> <<"65", "unknown">>, err |-> NoError]

\* calculate_date: today plus the given number of days
calculate_date(args, now) ==
    LET given == {m \in args : m[1] = "days_from_now"}
    IN  IF given = {} THEN [ok |-> FALSE, val |-> <<>>, err |-> Exc("ValidationError", <<>>)]
        ELSE [ok |-> TRUE, val |-> now \o <<"+", (CHOOSE m \in given : TRUE)[2]>>,
              err |-> NoError]

\* function_map = {"get_weather": get_weather, "calculate_date": calculate_date}
function_map == {"get_weather", "calculate_date"}

InvokeFunction(name, args, now) ==
    IF name = "get_weather" THEN get_weather(args) ELSE calculate_date(args, now)

\* lines 80-81: the request and the parsed intent are printed as they are
FnPrint ==
    /\ script = FnScript /\ pc = "invoked"
    /\ stdout' = stdout \o <<<<"User request", input.user_input>>,
                             <<"Parsed intent", response.content>>>>
    /\ pc' = "printed"
    /\ UNCHANGED <<part, httpVars, storeVars, script, step, log, error, template, prompt, input, parts, messages,
                   response, thought, result, toolCalls, branch, output>>

\* line 85: result["function_name"] in function_map
Known(d) == d["function_name"].t = "str" /\ d["function_name"].s \in function_map

\* lines 84-87: the function is invoked when the map has it, skipped otherwise
FnDispatch ==
    /\ script = FnScript /\ pc = "printed"
    /\ IF "function_name" \notin DOMAIN result
         THEN /\ pc' = "failed" /\ error' = Exc("KeyError", <<"function_name">>)
              /\ UNCHANGED <<log, stdout, toolCalls>>
       ELSE IF ~Known(result)
         THEN pc' = "done" /\ UNCHANGED <<log, stdout, error, toolCalls>>
       ELSE IF "arguments" \notin DOMAIN result
         THEN /\ pc' = "failed" /\ error' = Exc("KeyError", <<"arguments">>)
              /\ UNCHANGED <<log, stdout, toolCalls>>
       ELSE \E now \in Dates :
              LET name == result["function_name"].s
                  args == result["arguments"].o
                  r == InvokeFunction(name, args, now)
              IN  /\ toolCalls' = Append(toolCalls, [tool |-> name, args |-> args])
                  /\ log' = Append(log, <<"tool", name>>)
                  /\ IF r.ok
                       THEN /\ stdout' = Append(stdout, <<"Function output", r.val>>)
                            /\ pc' = "done" /\ error' = error
                       ELSE /\ stdout' = stdout
                            /\ pc' = "failed" /\ error' = r.err
    /\ UNCHANGED <<part, httpVars, storeVars, script, step, template, prompt, input, parts, messages, response, thought,
                   result, branch, output>>

-----------------------------------------------------------------------------
(* 06_1_parallel_runnable.py: parallel_chain = RunnableParallel(joke=...,  *)
(* fact=...).  invoke submits every branch to a thread pool with the same  *)
(* input, takes the results of the futures in the order the branches were  *)
(* given, and leaves the pool only when all its threads are through.       *)

ParScript == "06_1_parallel_runnable"

\* the branches, in the order the keywords are given
Branches == <<"joke", "fact">>
BranchNames == {Branches[i] : i \in DOMAIN Branches}

BranchPrompt(b) ==
    IF b = "joke" THEN <<Lit("Tell a very short joke about "), Field("topic")>>
    ELSE <<Lit("Tell me one interesting fact about "), Field("topic")>>

Idle == [state |-> "idle", step |-> 0, got |-> <<>>, messages |-> <<>>,
         response |-> NoMessage, out |-> <<>>, err |-> NoError]

NoOutput == [b \in {} |-> <<>>]

ParInit ==
    /\ script = ParScript
    /\ pc = "invoke"
    /\ template = <<>>
    /\ prompt = <<>>
    /\ input \in ChainInputs(ParScript)

\* executor.submit for every branch, each with the caller's input
ParSubmit ==
    /\ script = ParScript /\ pc = "invoke"
    /\ branch' = [b \in BranchNames |-> [branch[b] EXCEPT !.state = "running"]]
    /\ pc' = "join"
    /\ UNCHANGED <<part, httpVars, storeVars, script, step, log, stdout, error, template, prompt, input, parts,
                   messages, response, thought, result, toolCalls, output>>

\* a join that does not wait for the branch
NotWaitedFor(b) == TRUE

\* a branch whose thread is through, with a result or with an exception
Finished(b) == branch[b].state \in {"ok", "failed"}

BranchNextStep(b) ==
    IF branch[b].state = "running" /\ branch[b].step < Len(SequenceSteps)
      THEN SequenceSteps[branch[b].step + 1] ELSE ""

BranchAfterStep(b) ==
    IF branch[b].step + 1 = Len(SequenceSteps) THEN "ok" ELSE "running"

\* a prompt that writes into the mapping it was given
InputOverwritten(b, inp) == [inp EXCEPT !.topic = <<b>>]

\* prompt.invoke reads the input mapping and leaves it as it is
InputAfterPrompt(b, inp) == inp

\* step 1 of a branch: its prompt on the shared input
BranchPromptStep(b) ==
    /\ script = ParScript /\ BranchNextStep(b) = "prompt"
    /\ LET f == format_messages(BranchPrompt(b), input)
       IN  branch' = [branch EXCEPT ![b] =
                [@ EXCEPT !.step = @ + 1, !.got = <<input>>, !.messages = f.messages,
                          !.state = IF f.ok THEN BranchAfterStep(b) ELSE "failed",
                          !.err = IF f.ok THEN @ ELSE Exc("KeyError", <<f.missing>>)]]
    /\ input' = InputAfterPrompt(b, input)
    /\ log' = Append(log, <<"prompt", b>>)
    /\ UNCHANGED <<part, httpVars, storeVars, script, pc, step, stdout, error, template, prompt, parts, messages,
                   response, thought, result, toolCalls, output>>

\* step 2 of a branch: its own blocking call to the model server
BranchLlmStep(b) ==
    /\ script = ParScript /\ BranchNextStep(b) = "llm"
    /\ \/ \E r \in Replies :
            branch' = [branch EXCEPT ![b] =
                [@ EXCEPT !.step = @ + 1, !.response = AIMessage(r),
                          !.state = BranchAfterStep(b)]]
       \/ branch' = [branch EXCEPT ![b] =
                [@ EXCEPT !.step = @ + 1, !.state = "failed", !.err = ModelUnavailable]]
    /\ log' = Append(log, <<"llm", b>>)
    /\ UNCHANGED <<part, httpVars, storeVars, script, pc, step, stdout, error, template, prompt, input, parts,
                   messages, response, thought, result, toolCalls, output>>

\* step 3 of a branch: StrOutputParser
BranchParserStep(b) ==
    /\ script = ParScript /\ BranchNextStep(b) = "parser"
    /\ branch' = [branch EXCEPT ![b] =
            [@ EXCEPT !.step = @ + 1, !.out = StrOutputParser(branch[b].response),
                      !.state = BranchAfterStep(b)]]
    /\ log' = Append(log, <<"parser", b>>)
    /\ UNCHANGED <<part, httpVars, storeVars, script, pc, step, stdout, error, template, prompt, input, parts,
                   messages, response, thought, result, toolCalls, output>>

\* future.result() of the next branch in the given order: its result goes
\* into the output mapping; its exception ends the collecting
ParCollect ==
    /\ script = ParScript /\ pc = "join"
    /\ Cardinality(DOMAIN output) < Len(Branches)
    /\ LET b == Branches[Cardinality(DOMAIN output) + 1]
       IN  /\ Finished(b)
           /\ IF branch[b].state # "failed"
                THEN /\ output' = Put(output, b, branch[b].out)
                     /\ UNCHANGED <<pc, error>>
                ELSE /\ pc' = "raising"
                     /\ error' = branch[b].err
                     /\ UNCHANGED output
    /\ UNCHANGED <<part, httpVars, storeVars, script, step, log, stdout, template, prompt, input, parts, messages,
                   response, thought, result, toolCalls, branch>>

\* leaving the `with` block of the executor: shutdown(wait=True); then the
\* mapping is returned, or the exception goes on to the caller
ParReturn ==
    /\ script = ParScript
    /\ \/ pc = "join" /\ Cardinality(DOMAIN output) = Len(Branches)
       \/ pc = "raising"
    /\ \A b \in BranchNames : Finished(b)
    /\ IF pc = "join"
         THEN pc' = "invoked" /\ result' = output
         ELSE pc' = "failed" /\ result' = result
    /\ UNCHANGED <<part, httpVars, storeVars, script, step, log, stdout, error, template, prompt, input, parts,
                   messages, response, thought, toolCalls, branch, output>>

\* lines 49-50
ParPrint ==
    /\ script = ParScript /\ pc = "invoked"
    /\ stdout' = stdout \o <<<<"Joke", result["joke"]>>, <<"Fact", result["fact"]>>>>
    /\ pc' = "done"
    /\ UNCHANGED <<part, httpVars, storeVars, script, step, log, error, template, prompt, input, parts, messages,
                   response, thought, result, toolCalls, branch, output>>

-----------------------------------------------------------------------------
(* 05_json_structured_output.py, 07_json_structured_output.py and          *)
(* 04_3_nested_json.py: format_messages, llm.invoke, parser.parse and the  *)
(* prints, once (07: three times, each part with its own schema).          *)

Json5Script == "05_json_structured_output"
Json7Script == "07_json_structured_output"
NestedScript == "04_3_nested_json"
JsonScripts == {Json5Script, Json7Script, NestedScript}

\* a field of a pydantic model: its declared type, and whether it has no
\* default (required)
FieldOf(type, required) == [type |-> type, required |-> required]

ReviewExtraction ==
    [gift |-> FieldOf("bool", FALSE), delivery_days |-> FieldOf("int", FALSE),
     price_value |-> FieldOf("str", FALSE)]

SentimentAnalysis ==
    [sentiment |-> FieldOf("str", TRUE), confidence |-> FieldOf("float", TRUE),
     key_phrases |-> FieldOf("list", TRUE)]

\* 07_json_structured_output.py: Address
ContactAddress ==
    [street |-> FieldOf("str", FALSE), city |-> FieldOf("str", FALSE),
     state |-> FieldOf("str", FALSE), zip_code |-> FieldOf("str", FALSE)]

ContactExtraction ==
    [name |-> FieldOf("str", FALSE), email |-> FieldOf("str", FALSE),
     phone |-> FieldOf("str", FALSE), address |-> FieldOf("ContactAddress", FALSE)]

\* 04_3_nested_json.py: Address
Address ==
    [street |-> FieldOf("str", TRUE), city |-> FieldOf("str", TRUE),
     country |-> FieldOf("str", TRUE)]

Company ==
    [name |-> FieldOf("str", TRUE), employees |-> FieldOf("int", TRUE),
     headquarters |-> FieldOf("Address", TRUE)]

AgentThought ==
    [thought |-> FieldOf("str", TRUE), action |-> FieldOf("str", TRUE),
     tool_name |-> FieldOf("str", FALSE), tool_input |-> FieldOf("dict", FALSE),
     final_answer |-> FieldOf("str", FALSE)]

\* the model a field's type names
Inner(type) == IF type = "Address" THEN Address ELSE ContactAddress

\* JsonOutputParser(pydantic_object=...) of the script's part
pydantic_object(s, p) ==
    CASE s = NestedScript -> Company
      [] s = Json7Script /\ p = 2 -> SentimentAnalysis
      [] s = Json7Script /\ p = 3 -> ContactExtraction
      [] OTHER -> ReviewExtraction

Parts(s) == IF s = Json7Script THEN 3 ELSE 1

Seq3(a, b, c) == {p1 \o p2 \o p3 : p1 \in a, p2 \in b, p3 \in c}

\* what the model may write for each schema: every field present or left
\* out, values of the declared type and of another type.  Lists are not
\* modelled: key_phrases is left out, null or text.
ReviewPairs ==
    Seq3(Opt("gift", {JNull, JBool("true")}),
         Opt("delivery_days", {JNull, JNum("7")}),
         Opt("price_value", {JNull, JStr("worth it")}))

SentimentPairs ==
    Seq3(Opt("sentiment", {JStr("positive")}),
         Opt("confidence", {JNum("0.95"), JStr("high")}),
         Opt("key_phrases", {JNull, JStr("love it")}))

ContactPairs ==
    Seq3(Opt("name", {JNull, JStr("John Smith")}),
         Opt("email", {JStr("john.smith@example.com")}),
         Opt("address", {JNull, JObj({}), JObj({<<"city", "Springfield">>}),
                         JObj({<<"city", "Springfield">>, <<"zip_code", "62701">>})}))

CompanyPairs ==
    Seq3(Opt("name", {JStr("Acme")}),
         Opt("employees", {JNum("2500"), JStr("many")}),
         Opt("headquarters",
             {JStr("Reno"), JObj({<<"city", "Reno">>}),
              JObj({<<"street", "1 Main St">>, <<"city", "Reno">>, <<"country", "USA">>}),
              JObj({<<"street", "1 Main St">>, <<"city", "7">>, <<"country", "USA">>}),
              JObj({<<"street", "1 Main St">>, <<"city", "null">>, <<"country", "USA">>})}))

JsonPairs(s, p) ==
    CASE s = NestedScript -> CompanyPairs
      [] s = Json7Script /\ p = 2 -> SentimentPairs
      [] s = Json7Script /\ p = 3 -> ContactPairs
      [] OTHER -> ReviewPairs

JsonReplies(s, p) == {WriteJson(x) : x \in JsonPairs(s, p)} \cup {Prose}

JsonPromptOf(s, p) ==
    CASE s = NestedScript ->
           <<Lit("Generate a fictional tech company with headquarters address."),
             Field("format_instructions")>>
      [] s = Json7Script /\ p = 2 ->
           <<Lit("Analyze the sentiment of the following text."),
             Field("format_instructions"), Lit("text: "), Field("text")>>
      [] s = Json7Script /\ p = 3 ->
           <<Lit("Extract all contact information from the text."),
             Field("format_instructions"), Lit("text: "), Field("text")>>
      [] OTHER ->
           <<Lit("Analyze the following customer review and extract the required information."),
             Field("format_instructions"), Lit("text: "), Field("customer_review")>>

JsonInputOf(s, p) ==
    CASE s = NestedScript -> [format_instructions |-> FormatInstructions]
      [] s = Json7Script /\ p = 2 ->
           [text |-> <<"This product exceeded all my expectations!">>,
            format_instructions |-> FormatInstructions]
      [] s = Json7Script /\ p = 3 ->
           [text |-> <<"Please contact John Smith">>,
            format_instructions |-> FormatInstructions]
      [] OTHER ->
           [customer_review |-> <<"I recently purchased the Acme 3000 blender">>,
            format_instructions |-> FormatInstructions]

JsonInit ==
    /\ script \in JsonScripts
    /\ pc = "format"
    /\ template = <<>>
    /\ prompt = <<>>
    /\ input = NoDict

\* dict.get(key): the value, None when the dict has no such key
Get(d, k) == IF k \in DOMAIN d THEN d[k] ELSE JNull

RECURSIVE ReprMembers(_, _)
ReprMembers(d, keys) ==
    IF keys = {} THEN <<>>
    ELSE LET k == CHOOSE x \in keys : TRUE
         IN  <<k, ":">> \o WriteValue(d[k]) \o ReprMembers(d, keys \ {k})

\* a dict as print() writes it (the order of the keys is not modelled)
Repr(d) == <<"{">> \o ReprMembers(d, DOMAIN d) \o <<"}">>

\* from_template and format_messages of the part; 07 prints the format
\* instructions first
JsonFormat ==
    /\ script \in JsonScripts /\ pc = "format"
    /\ template' = TemplateText(JsonPromptOf(script, part))
    /\ prompt' = JsonPromptOf(script, part)
    /\ input' = JsonInputOf(script, part)
    /\ stdout' = IF script = Json7Script /\ part = 1
                   THEN Append(stdout, <<"Format Instructions:", FormatInstructions>>)
                   ELSE stdout
    /\ LET f == format_messages(JsonPromptOf(script, part), JsonInputOf(script, part))
       IN  /\ parts' = f.parts
           /\ messages' = f.messages
           /\ log' = Append(log, <<"prompt", "main">>)
           /\ IF f.ok
                THEN pc' = "llm" /\ error' = error
                ELSE pc' = "failed" /\ error' = Exc("KeyError", <<f.missing>>)
    /\ UNCHANGED <<part, httpVars, storeVars, script, step, response, thought, result, toolCalls,
                   branch, output>>

\* llm.invoke(formatted_prompt); the first part of 07 prints the raw output
JsonLlm ==
    /\ script \in JsonScripts /\ pc = "llm"
    /\ log' = Append(log, <<"llm", "main">>)
    /\ \/ \E r \in JsonReplies(script, part) :
            /\ response' = AIMessage(r) /\ pc' = "parse" /\ error' = error
            /\ stdout' = IF script = Json7Script /\ part = 1
                           THEN Append(stdout, <<"Raw LLM Output:", r>>)
                           ELSE stdout
       \/ response' = response /\ pc' = "failed" /\ error' = ModelUnavailable
          /\ stdout' = stdout
    /\ UNCHANGED <<part, httpVars, storeVars, script, step, template, prompt, input, parts, messages,
                   thought, result, toolCalls, branch, output>>

\* parser.parse(llm_output)
JsonParse ==
    /\ script \in JsonScripts /\ pc = "parse"
    /\ log' = Append(log, <<"parser", "main">>)
    /\ LET j == JsonOutputParser(response.content)
       IN  IF j.ok
             THEN result' = j.val /\ pc' = "print" /\ error' = error
             ELSE /\ result' = result /\ pc' = "failed"
                  /\ error' = Exc("OutputParserException", response.content)
    /\ UNCHANGED <<part, httpVars, storeVars, script, step, stdout, template, prompt, input, parts,
                   messages, response, thought, toolCalls, branch, output>>

Line(label, text) == <<label, text>>
PrintOk(out) == [ok |-> TRUE, out |-> out, err |-> NoError]
PrintFail(out, err) == [ok |-> FALSE, out |-> out, err |-> err]

\* the member of a nested object, as the set of its tokens
Member(o, k) == {m[2] : m \in {x \in o : x[1] = k}}

\* 04_3_nested_json.py lines 64-73: the prints subscript the dict, and the
\* nested dict
CompanyPrints(d) ==
    LET name == Line("Company", WriteValue(Get(d, "name")))
        employees == Line("Employees", WriteValue(Get(d, "employees")))
        hq == Get(d, "headquarters")
        nested(k) == Line(k, <<CHOOSE tok \in Member(hq.o, k) : TRUE>>)
    IN  IF "name" \notin DOMAIN d THEN PrintFail(<<>>, Exc("KeyError", <<"name">>))
        ELSE IF "employees" \notin DOMAIN d
          THEN PrintFail(<<name>>, Exc("KeyError", <<"employees">>))
        ELSE IF "headquarters" \notin DOMAIN d
          THEN PrintFail(<<name, employees>>, Exc("KeyError", <<"headquarters">>))
        ELSE IF hq.t # "obj"
          THEN PrintFail(<<name, employees>>, Exc("TypeError", <<"headquarters">>))
        ELSE IF Member(hq.o, "street") = {}
          THEN PrintFail(<<name, employees>>, Exc("KeyError", <<"street">>))
        ELSE IF Member(hq.o, "city") = {}
          THEN PrintFail(<<name, employees, nested("street")>>, Exc("KeyError", <<"city">>))
        ELSE IF Member(hq.o, "country") = {}
          THEN PrintFail(<<name, employees, nested("street"), nested("city")>>,
                         Exc("KeyError", <<"country">>))
        ELSE PrintOk(<<name, employees, nested("street"), nested("city"),
                       nested("country"), Line("Full JSON", Repr(d))>>)

\* what the part prints of the parsed output
JsonPrints(s, p, d) ==
    CASE s = NestedScript -> CompanyPrints(d)
      [] s = Json7Script /\ p = 1 ->
           PrintOk(<<Line("Parsed Output:", Repr(d)),
                     Line("Gift mentioned", WriteValue(Get(d, "gift"))),
                     Line("Delivery days", WriteValue(Get(d, "delivery_days"))),
                     Line("Price value", WriteValue(Get(d, "price_value")))>>)
      [] OTHER -> PrintOk(<<Line("", Repr(d))>>)

\* the prints after the parse; 07 goes on with its next part
JsonPrint ==
    /\ script \in JsonScripts /\ pc = "print"
    /\ LET w == JsonPrints(script, part, result)
       IN  /\ stdout' = stdout \o w.out
           /\ error' = IF w.ok THEN error ELSE w.err
           /\ pc' = IF ~w.ok THEN "failed"
                    ELSE IF part < Parts(script) THEN "format" ELSE "done"
           /\ part' = IF w.ok /\ part < Parts(script) THEN part + 1 ELSE part
    /\ UNCHANGED <<httpVars, storeVars, script, step, log, template, prompt, input, parts, messages,
                   response, thought, result, toolCalls, branch, output>>

-----------------------------------------------------------------------------
(* 04_1_comma_separated_list.py: CommaSeparatedListOutputParser.  The text *)
(* is a sequence of tokens: words, ",", " " and "\n".  parse reads it with *)
(* csv.reader(delimiter=",", skipinitialspace=True) and puts the items of  *)
(* all lines into one list.  (Quoted items are not modelled.)              *)

ListScript == "04_1_comma_separated_list"

MaxText == 4        \* tokens of a drawn reply

RECURSIVE SplitOn(_, _)
\* the pieces of a text between the occurrences of a separator
SplitOn(text, sep) ==
    LET at == {i \in DOMAIN text : text[i] = sep}
        i == CHOOSE x \in at : \A y \in at : x <= y
    IN  IF at = {} THEN <<text>>
        ELSE <<SubSeq(text, 1, i - 1)>> \o SplitOn(SubSeq(text, i + 1, Len(text)), sep)

\* a reader that keeps the blanks after a delimiter
KeepInitialSpace(field) == field

RECURSIVE SkipInitialSpace(_)
\* skipinitialspace=True: the blanks that follow a delimiter are dropped
SkipInitialSpace(field) ==
    IF field # <<>> /\ field[1] = " " THEN SkipInitialSpace(Tail(field)) ELSE field

\* one line of the text: no items when it is empty, else its fields
Row(line) ==
    IF line = <<>> THEN <<>>
    ELSE LET fields == SplitOn(line, ",")
         IN  [i \in DOMAIN fields |-> SkipInitialSpace(fields[i])]

RECURSIVE Rows(_)
Rows(lines) == IF lines = <<>> THEN <<>> ELSE Row(lines[1]) \o Rows(Tail(lines))

\* CommaSeparatedListOutputParser.parse: never fails
CommaSeparatedListOutputParser(text) == Rows(SplitOn(text, "\n"))

RECURSIVE CommaJoin(_)
\* the items written one after the other, separated by ", "
CommaJoin(items) ==
    IF items = <<>> THEN <<>>
    ELSE IF Len(items) = 1 THEN items[1]
    ELSE items[1] \o <<",", " ">> \o CommaJoin(Tail(items))

Words == {"Python", "JavaScript", "Go"}
ItemLists == UNION {[1..n -> {<<w>> : w \in Words}] : n \in 1..3}
TextAlphabet == {"Python", "Go", ",", " ", "\n"}

\* what the model may answer: a comma-separated list of up to three words,
\* or any text of the alphabet up to the bound
ListReplies ==
    {CommaJoin(l) : l \in ItemLists} \cup UNION {[1..n -> TextAlphabet] : n \in 0..MaxText}

ListPrompt == <<Lit("List 5 "), Field("category"), Lit("\n"), Field("format_instructions")>>
ListInput == [category |-> <<"popular programming languages">>,
              format_instructions |-> <<"Your response should be a list of comma separated values">>]

ListInit ==
    /\ script = ListScript
    /\ pc = "format"
    /\ template = TemplateText(ListPrompt)
    /\ prompt = ListPrompt
    /\ input = ListInput

\* lines 37-40: prompt.format_messages
ListFormat ==
    /\ script = ListScript /\ pc = "format"
    /\ LET f == format_messages(prompt, input)
       IN  /\ parts' = f.parts
           /\ messages' = f.messages
           /\ log' = Append(log, <<"prompt", "main">>)
           /\ IF f.ok
                THEN pc' = "llm" /\ error' = error
                ELSE pc' = "failed" /\ error' = Exc("KeyError", <<f.missing>>)
    /\ UNCHANGED <<part, httpVars, storeVars, script, step, stdout, template, prompt, input, response,
                   thought, result, toolCalls, branch, output>>

\* line 43: llm.invoke(formatted_prompt).content
ListLlm ==
    /\ script = ListScript /\ pc = "llm"
    /\ log' = Append(log, <<"llm", "main">>)
    /\ \/ \E r \in ListReplies :
            response' = AIMessage(r) /\ pc' = "parse" /\ error' = error
       \/ response' = response /\ pc' = "failed" /\ error' = ModelUnavailable
    /\ UNCHANGED <<part, httpVars, storeVars, script, step, stdout, template, prompt, input, parts,
                   messages, thought, result, toolCalls, branch, output>>

\* line 46: parser.parse(llm_output)
ListParse ==
    /\ script = ListScript /\ pc = "parse"
    /\ log' = Append(log, <<"parser", "main">>)
    /\ result' = CommaSeparatedListOutputParser(response.content)
    /\ pc' = "print"
    /\ UNCHANGED <<part, httpVars, storeVars, script, step, stdout, error, template, prompt, input,
                   parts, messages, response, thought, toolCalls, branch, output>>

\* lines 48-51: the last print subscripts the list
ListPrint ==
    /\ script = ListScript /\ pc = "print"
    /\ LET out == <<Line("Raw output", response.content),
                    Line("Parsed list", CommaJoin(result)),
                    Line("Type", <<"list">>)>>
       IN  IF result = <<>>
             THEN /\ stdout' = stdout \o out
                  /\ pc' = "failed" /\ error' = Exc("IndexError", <<>>)
             ELSE /\ stdout' = stdout \o Append(out, Line("First item", result[1]))
                  /\ pc' = "done" /\ error' = error
    /\ UNCHANGED <<part, httpVars, storeVars, script, step, log, template, prompt, input, parts,
                   messages, response, thought, result, toolCalls, branch, output>>

-----------------------------------------------------------------------------
(* 03_4_prompt_composition.py, 03_2_chat_prompt_templates.py: a prompt     *)
(* built with from_messages from several message templates, each with a    *)
(* role; format_messages formats them one after the other.                 *)

CompScript == "03_4_prompt_composition"
ChatScript == "03_2_chat_prompt_templates"
CompScripts == {CompScript, ChatScript}

SystemMessage(content) == [role |-> "system", content |-> content]

\* SystemMessagePromptTemplate.from_template / HumanMessagePromptTemplate
\* .from_template / a (role, template) tuple
MessageTemplate(role, pieces) == [role |-> role, pieces |-> pieces]

system_template ==
    MessageTemplate("system", <<Lit("You are a "), Field("role"),
                                Lit(" with expertise in "), Field("domain")>>)
context_template == MessageTemplate("human", <<Lit("Context: "), Field("context")>>)
question_template == MessageTemplate("human", <<Lit("Question: "), Field("question")>>)

\* the list the caller hands to from_messages
Components(s) ==
    IF s = CompScript THEN <<system_template, context_template, question_template>>
    ELSE <<MessageTemplate("system", <<Lit("You are a "), Field("role"), Lit(" who "),
                                       Field("behavior"), Lit(" in a "), Field("style")>>),
           MessageTemplate("human", <<Field("user_input")>>)>>

RECURSIVE Reversed(_)
Reversed(seq) == IF seq = <<>> THEN <<>> ELSE Append(Reversed(Tail(seq)), seq[1])

\* a prompt whose messages are in the opposite order
from_messages_reversed(list) == Reversed(list)

\* ChatPromptTemplate.from_messages: the message templates, in the order of
\* the list
from_messages(list) == list

RECURSIVE FormatChat(_, _, _)
\* ChatPromptTemplate.format_messages: every message template is formatted
\* with the same variables; its one message is appended to the result
FormatChat(list, kwargs, acc) ==
    IF list = <<>> THEN [ok |-> TRUE, missing |-> "", messages |-> acc]
    ELSE LET f == FormatPieces(list[1].pieces, kwargs, <<>>)
         IN  IF f.ok
               THEN FormatChat(Tail(list), kwargs,
                               Append(acc, [role |-> list[1].role, content |-> Flatten(f.out)]))
             ELSE [ok |-> FALSE, missing |-> f.missing, messages |-> <<>>]

CompInputs(s) ==
    IF s = CompScript
      THEN {[role |-> <<"financial advisor">>, domain |-> <<"retirement planning">>,
             context |-> c, question |-> q] :
                c \in {<<"The client is 35 years old">>, <<>>}, q \in Questions}
    ELSE {[role |-> <<"Python programming expert">>, behavior |-> <<"explains concepts">>,
           style |-> <<"clear and concise">>, user_input |-> q] : q \in Questions}

CompInit ==
    /\ script \in CompScripts
    /\ pc = "start"
    /\ template = <<>>
    /\ prompt = <<>>
    /\ input \in CompInputs(script)

\* ChatPromptTemplate.from_messages([...])
CompFromMessages ==
    /\ script \in CompScripts /\ pc = "start"
    /\ prompt' = from_messages(Components(script))
    /\ pc' = "built"
    /\ UNCHANGED <<part, httpVars, storeVars, script, step, log, stdout, error, template, input, parts,
                   messages, response, thought, result, toolCalls, branch, output>>

\* full_prompt.format_messages(...)
CompFormat ==
    /\ script \in CompScripts /\ pc = "built"
    /\ LET f == FormatChat(prompt, input, <<>>)
       IN  /\ messages' = f.messages
           /\ log' = Append(log, <<"prompt", "main">>)
           /\ IF f.ok
                THEN pc' = "formatted" /\ error' = error
                ELSE pc' = "failed" /\ error' = Exc("KeyError", <<f.missing>>)
    /\ UNCHANGED <<part, httpVars, storeVars, script, step, stdout, template, prompt, input, parts,
                   response, thought, result, toolCalls, branch, output>>

\* llm.invoke(formatted_prompt)
CompLlm ==
    /\ script \in CompScripts /\ pc = "formatted"
    /\ log' = Append(log, <<"llm", "main">>)
    /\ \/ \E r \in Replies :
            response' = AIMessage(r) /\ pc' = "replied" /\ error' = error
       \/ response' = response /\ pc' = "failed" /\ error' = ModelUnavailable
    /\ UNCHANGED <<part, httpVars, storeVars, script, step, stdout, template, prompt, input, parts,
                   messages, thought, result, toolCalls, branch, output>>

\* print(response.content)
CompPrint ==
    /\ script \in CompScripts /\ pc = "replied"
    /\ stdout' = Append(stdout, <<"", response.content>>)
    /\ pc' = "done"
    /\ UNCHANGED <<part, httpVars, storeVars, script, step, log, error, template, prompt, input, parts,
                   messages, response, thought, result, toolCalls, branch, output>>

-----------------------------------------------------------------------------
(* 06_dependency_injection.py: the endpoints /api/basic ... /api/basic4.   *)
(* Endpoints and dependencies are plain functions, so the server runs each *)
(* request's dependency calls and its handler on threads of a pool:        *)
(* requests are handled concurrently.                                      *)

HttpScript == "06_dependency_injection"

MaxRequests == 2    \* requests in flight

Endpoints == {"basic", "basic2", "basic3", "basic4"}

\* a request that has arrived: no client yet, no answer yet
Arrived(e) == [endpoint |-> e, state |-> "arrived", llm |-> 0, status |-> 0,
               raised |-> NoError, body |-> <<>>]

HttpRequests == [1..MaxRequests -> {Arrived(e) : e \in Endpoints}]

\* what the model answers, and whether the answer carries usage counts
HttpReplies == {[content |-> <<"Hello, world!">>, usage_metadata |-> u] :
                    u \in {"counts", "none"}}

HttpInit ==
    /\ script = HttpScript
    /\ pc = "serving"
    /\ template = <<>>
    /\ prompt = <<>>
    /\ input = NoDict

\* get_ollama_llm, the lookup of lru_cache(maxsize=1): a hit gives the cached
\* client; on a miss the wrapped function is called, outside the cache's lock
HttpLookup(r) ==
    /\ script = HttpScript /\ requests[r].state = "arrived"
    /\ requests' = [requests EXCEPT ![r] =
            IF lru_cache # <<>>
              THEN [@ EXCEPT !.state = "resolved", !.llm = lru_cache[1]]
              ELSE [@ EXCEPT !.state = "constructing"]]
    /\ UNCHANGED <<storeVars, lru_cache, instances, script, pc, part, step, log, stdout, error,
                   template, prompt, input, parts, messages, response, thought, result,
                   toolCalls, branch, output>>

\* lines 75-80, and the cache after the call: ChatOllama(...) is constructed
\* and returned; it is stored unless the key was added during the call
HttpConstruct(r) ==
    /\ script = HttpScript /\ requests[r].state = "constructing"
    /\ instances' = instances + 1
    /\ lru_cache' = IF lru_cache = <<>> THEN <<instances + 1>> ELSE lru_cache
    /\ requests' = [requests EXCEPT ![r] =
            [@ EXCEPT !.state = "resolved", !.llm = instances + 1]]
    /\ UNCHANGED <<storeVars, script, pc, part, step, log, stdout, error, template, prompt, input,
                   parts, messages, response, thought, result, toolCalls, branch, output>>

\* raise HTTPException(status_code=503, detail=f"Ollama unavailable: {e}")
HTTPException(req, e) ==
    [req EXCEPT !.state = "answered", !.status = 503, !.raised = e,
                !.body = <<"Ollama unavailable">> \o e.message]

Ok200(req, body) == [req EXCEPT !.state = "answered", !.status = 200, !.body = body]

\* basic4: the template and the variables written in the handler
Basic4Prompt == <<Lit("Translate the text into a style that is "), Field("style"),
                  Lit("text: "), Field("text")>>
Basic4Input == [style |-> <<"slang">>, text |-> <<"Hello how art thou?">>]

\* the body of the handler's try block on the model's reply m
Handler(req, m) ==
    IF req.endpoint = "basic3"
      THEN IF m.usage_metadata = "none"
             THEN HTTPException(req, Exc("AttributeError", <<"NoneType", "get">>))
             ELSE Ok200(req, <<"Input tokens:", "Output tokens:">> \o m.content)
    ELSE IF req.endpoint = "basic4" /\ ~format_messages(Basic4Prompt, Basic4Input).ok
      THEN HTTPException(req, Exc("KeyError",
                                  <<format_messages(Basic4Prompt, Basic4Input).missing>>))
    ELSE Ok200(req, m.content)

\* get_ollama_service(llm) and the endpoint: the handler calls the model
\* through the service; whatever is raised in the try block is answered 503
HttpHandle(r) ==
    /\ script = HttpScript /\ requests[r].state = "resolved"
    /\ log' = Append(log, <<"llm", requests[r].endpoint>>)
    /\ \/ \E m \in HttpReplies :
            requests' = [requests EXCEPT ![r] = Handler(@, m)]
       \/ requests' = [requests EXCEPT ![r] = HTTPException(@, ModelUnavailable)]
    /\ UNCHANGED <<storeVars, lru_cache, instances, script, pc, part, step, stdout, error, template,
                   prompt, input, parts, messages, response, thought, result, toolCalls,
                   branch, output>>

-----------------------------------------------------------------------------
(* 05_1_sequential_chains.py and 11_routing.py: two chains, invoked one    *)
(* after the other.  05_1 hands the output of chain1 to chain2 as topic;   *)
(* 11 classifies the question with the first chain and picks the prompt of *)
(* the second by the category.                                             *)

SeqScript == "05_1_sequential_chains"
RouteScript == "11_routing"
TwoChainScripts == {SeqScript, RouteScript}

prompt1 == <<Lit("Generate a single interesting topic about "), Field("subject")>>
prompt2 == <<Lit("Write a brief 2-sentence explanation about: "), Field("topic")>>

classify_prompt == <<Lit("Classify this question into one category:"),
                     Field("format_instructions"), Lit("Question: "), Field("question")>>

\* prompts = {"technical": ..., "creative": ..., "factual": ...}
prompts == {"technical", "creative", "factual"}

PromptFor(category) ==
    CASE category = "technical" ->
           <<Lit("You are a technical expert. Provide a clear answer with examples:"),
             Field("question")>>
      [] category = "creative" ->
           <<Lit("You are a creative writer. Be imaginative:"), Field("question")>>
      [] OTHER ->
           <<Lit("You are knowledgeable. Provide accurate information:"), Field("question")>>

\* the chain that is running: chain1 / classifier, or chain2 / response_chain
ChainName == IF part = 1 THEN "chain1" ELSE "chain2"

\* classifications the model may write: every field present or left out,
\* categories inside and outside the three
RoutePairs ==
    {p1 \o p2 :
        p1 \in Opt("category", {JNull, JStr("technical"), JStr("creative"),
                                JStr("factual"), JStr("other"), JObj({})}),
        p2 \in Opt("confidence", {JStr("high")})}

TwoChainReplies(s, p) ==
    IF s = RouteScript /\ p = 1 THEN {WriteJson(x) : x \in RoutePairs} \cup {Prose}
    ELSE Replies

Subjects == {<<"space exploration">>, <<"deep sea">>}

TwoChainInit ==
    /\ script \in TwoChainScripts
    /\ pc = "invoke"
    /\ prompt = IF script = SeqScript THEN prompt1 ELSE classify_prompt
    /\ template = TemplateText(prompt)
    /\ input \in IF script = SeqScript THEN {[subject |-> x] : x \in Subjects}
                 ELSE {[format_instructions |-> FormatInstructions, question |-> q] :
                          q \in Questions}

\* step 1 of the running chain
TwoChainPromptStep ==
    /\ script \in TwoChainScripts /\ pc = "invoke" /\ NextStep = "prompt"
    /\ step' = step + 1
    /\ LET f == format_messages(prompt, input)
       IN  /\ parts' = f.parts
           /\ messages' = f.messages
           /\ log' = Append(log, <<"prompt", ChainName>>)
           /\ IF f.ok
                THEN pc' = AfterStep /\ error' = error
                ELSE pc' = "failed" /\ error' = Exc("KeyError", <<f.missing>>)
    /\ UNCHANGED <<part, httpVars, storeVars, script, stdout, template, prompt, input, response,
                   thought, result, toolCalls, branch, output>>

\* step 2 of the running chain
TwoChainLlmStep ==
    /\ script \in TwoChainScripts /\ pc = "invoke" /\ NextStep = "llm"
    /\ step' = step + 1
    /\ log' = Append(log, <<"llm", ChainName>>)
    /\ \/ \E r \in TwoChainReplies(script, part) :
            response' = AIMessage(r) /\ pc' = AfterStep /\ error' = error
       \/ response' = response /\ pc' = "failed" /\ error' = ModelUnavailable
    /\ UNCHANGED <<part, httpVars, storeVars, script, stdout, template, prompt, input, parts, messages,
                   thought, result, toolCalls, branch, output>>

\* step 3 of the running chain: the classifier has the JSON parser, the
\* other chains StrOutputParser
TwoChainParserStep ==
    /\ script \in TwoChainScripts /\ pc = "invoke" /\ NextStep = "parser"
    /\ step' = step + 1
    /\ log' = Append(log, <<"parser", ChainName>>)
    /\ IF script = RouteScript /\ part = 1
         THEN LET j == JsonOutputParser(response.content)
              IN  /\ pc' = IF j.ok THEN AfterStep ELSE "failed"
                  /\ error' = IF j.ok THEN error
                              ELSE Exc("OutputParserException", response.content)
                  /\ thought' = IF j.ok THEN j.val ELSE thought
                  /\ result' = result
         ELSE /\ result' = StrOutputParser(response)
              /\ pc' = AfterStep
              /\ UNCHANGED <<thought, error>>
    /\ UNCHANGED <<part, httpVars, storeVars, script, stdout, template, prompt, input, parts, messages,
                   response, toolCalls, branch, output>>

\* a caller that hands on nothing of what the first chain returned
NextInputEmpty(out) == [topic |-> <<>>]

\* line 42: {"topic": topic}
NextInput(out) == [topic |-> out]

\* 05_1 lines 39-42: chain1 has returned; topic is printed and handed to
\* chain2
SeqNext ==
    /\ script = SeqScript /\ pc = "invoked" /\ part = 1
    /\ stdout' = Append(stdout, <<"Generated topic", result>>)
    /\ input' = NextInput(result)
    /\ prompt' = prompt2
    /\ template' = TemplateText(prompt2)
    /\ part' = 2 /\ step' = 0 /\ pc' = "invoke"
    /\ UNCHANGED <<httpVars, storeVars, script, log, error, parts, messages, response, thought, result,
                   toolCalls, branch, output>>

\* 05_1 line 43
SeqPrint ==
    /\ script = SeqScript /\ pc = "invoked" /\ part = 2
    /\ stdout' = Append(stdout, <<"Explanation", result>>)
    /\ pc' = "done"
    /\ UNCHANGED <<part, httpVars, storeVars, script, step, log, error, template, prompt, input, parts,
                   messages, response, thought, result, toolCalls, branch, output>>

\* 11 lines 71-78: the prints, classification["category"], and the test
\* `category in prompts`; there is no else branch
RouteDispatch ==
    /\ script = RouteScript /\ pc = "invoked" /\ part = 1
    /\ stdout' = stdout \o <<<<"Question", input.question>>,
                             <<"Classification", Repr(thought)>>>>
    /\ IF "category" \notin DOMAIN thought
         THEN /\ pc' = "failed" /\ error' = Exc("KeyError", <<"category">>)
              /\ UNCHANGED <<part, step, prompt, template, input>>
       ELSE IF thought["category"].t = "obj"
         THEN /\ pc' = "failed" /\ error' = Exc("TypeError", <<"unhashable">>)
              /\ UNCHANGED <<part, step, prompt, template, input>>
       ELSE IF ~(thought["category"].t = "str" /\ thought["category"].s \in prompts)
         THEN /\ pc' = "done"
              /\ UNCHANGED <<error, part, step, prompt, template, input>>
       ELSE /\ prompt' = PromptFor(thought["category"].s)
            /\ template' = TemplateText(PromptFor(thought["category"].s))
            /\ input' = [question |-> input.question]
            /\ part' = 2 /\ step' = 0 /\ pc' = "invoke"
            /\ error' = error
    /\ UNCHANGED <<httpVars, storeVars, script, log, parts, messages, response, thought, result,
                   toolCalls, branch, output>>

\* 11 lines 79-80
RoutePrint ==
    /\ script = RouteScript /\ pc = "invoked" /\ part = 2
    /\ stdout' = stdout \o <<<<"Routed to", <<thought["category"].s>>>>,
                             <<"Response", result>>>>
    /\ pc' = "done"
    /\ UNCHANGED <<part, httpVars, storeVars, script, step, log, error, template, prompt, input, parts,
                   messages, response, thought, result, toolCalls, branch, output>>

-----------------------------------------------------------------------------
(* 07_memory.py: the conversation history kept in conversations.db.  The   *)
(* database file outlives the run, so several runs of the script share it: *)
(* run 1 is the run whose position is pc, the other runs are further runs  *)
(* of the same script of which only init_db, the part that writes, is      *)
(* followed.  Each run has its own connection; sqlite3 opens a transaction *)
(* before the first INSERT and not before a SELECT, and one connection at  *)
(* a time holds the write lock.                                            *)

MemScript == "07_memory"

MaxRuns == 2      \* runs of the script that share the database file
Runs == 1..MaxRuns

Msg(role, content) == [role |-> role, content |-> content]

\* init_db, lines 49-54: the sample history
SampleMessages ==
    << Msg("human", "What is Python?"),
       Msg("ai", "Python is a high-level programming language known for its simple syntax."),
       Msg("human", "What are its main uses?"),
       Msg("ai", "Python is used for web development, data science, and automation.") >>

\* what the messages table may hold when the script starts: nothing (a fresh
\* database), the sample history of an earlier run, or rows written by
\* another program
MemTables ==
    { <<>>,
      SampleMessages,
      << Msg("human", "Hi") >>,
      << Msg("system", "Be brief."), Msg("human", "Hi"), Msg("ai", "Hello!") >> }

NoConn == [pc |-> "idle", count |-> 0, pending |-> <<>>, overlap |-> FALSE]

\* positions of a run inside init_db
Inside == {"connected", "counted", "inserted"}

\* line 48 with the mutant below: the sample history is inserted whatever
\* the count is
AlwaysSeed(count) == TRUE

\* line 48: if cursor.fetchone()[0] == 0
NeedsSeed(count) == count = 0

\* lines 61-68: SELECT role, content FROM messages ORDER BY id
get_history(rows) == [i \in DOMAIN rows |-> Msg(rows[i].role, rows[i].content)]

RECURSIVE format_history(_)
\* lines 71-77: one line per message, "Human" for the role human and
\* "Assistant" for every other role, joined by newlines
format_history(h) ==
    IF h = <<>> THEN <<>>
    ELSE <<(IF h[1].role = "human" THEN "Human" ELSE "Assistant"), ": ", h[1].content>>
         \o (IF Len(h) = 1 THEN <<>> ELSE <<"\n">> \o format_history(Tail(h)))

\* lines 88-95
MemPrompt ==
    << Lit("Previous conversation:\n"), Field("history"),
       Lit("\n\nBased on the conversation above, answer:\nHuman: "), Field("question"),
       Lit("\nAssistant:") >>

\* line 102
MemQuestion == <<"Can you give me an example of Python automation?">>

\* a chain that appends the exchange to the messages table
TableAfterInvokeSaved(rows, question, answer) ==
    rows \o << Msg("human", question), Msg("ai", answer) >>

\* lines 97-103: the chain is prompt | llm | StrOutputParser with no memory
\* attached; invoking it writes nothing to the table
TableAfterInvoke(rows, question, answer) == rows

MemInit ==
    /\ script = MemScript
    /\ pc = "init_db"
    /\ prompt = MemPrompt
    /\ template = TemplateText(MemPrompt)
    /\ input = <<>>

\* init_db lines 35-44 of run r: connect, CREATE TABLE IF NOT EXISTS
InitDbConnect(r) ==
    /\ script = MemScript /\ conn[r].pc = "idle"
    /\ r = 1 => pc = "init_db"
    /\ LET others == {q \in Runs \ {r} : conn[q].pc \in Inside}
       IN  conn' = [q \in Runs |->
                      IF q = r THEN [conn[r] EXCEPT !.pc = "connected", !.overlap = others # {}]
                      ELSE IF q \in others THEN [conn[q] EXCEPT !.overlap = TRUE]
                      ELSE conn[q]]
    /\ UNCHANGED <<db, history, workflow_id, classification, service, invocations, retrieved>>
    /\ UNCHANGED <<part, httpVars, script, pc, step, log, stdout, error, template, prompt, input,
                   parts, messages, response, thought, result, toolCalls, branch, output>>

\* init_db line 47 of run r: SELECT COUNT(*) sees the committed rows
InitDbCount(r) ==
    /\ script = MemScript /\ conn[r].pc = "connected"
    /\ conn' = [conn EXCEPT ![r].pc = "counted", ![r].count = Len(db)]
    /\ UNCHANGED <<db, history, workflow_id, classification, service, invocations, retrieved>>
    /\ UNCHANGED <<part, httpVars, script, pc, step, log, stdout, error, template, prompt, input,
                   parts, messages, response, thought, result, toolCalls, branch, output>>

\* the write lock is held by another connection
Locked(r) == \E q \in Runs \ {r} : conn[q].pc = "inserted"

\* init_db lines 48-55 of run r: the count was 0; executemany opens the
\* transaction and inserts the sample history, not yet committed
InitDbInsert(r) ==
    /\ script = MemScript /\ conn[r].pc = "counted"
    /\ NeedsSeed(conn[r].count)
    /\ ~Locked(r)
    /\ conn' = [conn EXCEPT ![r].pc = "inserted", ![r].pending = SampleMessages]
    /\ UNCHANGED <<db, history, workflow_id, classification, service, invocations, retrieved>>
    /\ UNCHANGED <<part, httpVars, script, pc, step, log, stdout, error, template, prompt, input,
                   parts, messages, response, thought, result, toolCalls, branch, output>>

\* init_db line 55 of run r: the lock stayed with another connection for
\* longer than the timeout of connect: sqlite3.OperationalError
InitDbBusy(r) ==
    /\ script = MemScript /\ conn[r].pc = "counted"
    /\ NeedsSeed(conn[r].count)
    /\ Locked(r)
    /\ conn' = [conn EXCEPT ![r].pc = "failed"]
    /\ IF r = 1
         THEN pc' = "failed" /\ error' = Exc("OperationalError", <<"database is locked">>)
         ELSE UNCHANGED <<pc, error>>
    /\ UNCHANGED <<db, history, workflow_id, classification, service, invocations, retrieved>>
    /\ UNCHANGED <<part, httpVars, script, step, log, stdout, template, prompt, input,
                   parts, messages, response, thought, result, toolCalls, branch, output>>

\* init_db lines 57-58 of run r: commit and close; the inserted rows get the
\* ids after the rows that are there
InitDbCommit(r) ==
    /\ script = MemScript
    /\ \/ conn[r].pc = "inserted"
       \/ conn[r].pc = "counted" /\ ~NeedsSeed(conn[r].count)
    /\ db' = db \o conn[r].pending
    /\ conn' = [conn EXCEPT ![r].pc = "closed", ![r].pending = <<>>]
    /\ pc' = IF r = 1 THEN "initialized" ELSE pc
    /\ UNCHANGED <<history, workflow_id, classification, service, invocations, retrieved>>
    /\ UNCHANGED <<part, httpVars, script, step, log, stdout, error, template, prompt, input,
                   parts, messages, response, thought, result, toolCalls, branch, output>>

\* line 84: history = get_history()
MemGetHistory ==
    /\ script = MemScript /\ pc = "initialized"
    /\ history' = get_history(db)
    /\ pc' = "history"
    /\ UNCHANGED <<db, conn, workflow_id, classification, service, invocations, retrieved>>
    /\ UNCHANGED <<part, httpVars, script, step, log, stdout, error, template, prompt, input,
                   parts, messages, response, thought, result, toolCalls, branch, output>>

\* lines 85 and 100-103: history_text = format_history(history) and the
\* variables of the chain
MemFormatHistory ==
    /\ script = MemScript /\ pc = "history"
    /\ input' = [history |-> format_history(history), question |-> MemQuestion]
    /\ pc' = "formatted"
    /\ UNCHANGED <<db, conn, history, workflow_id, classification, service, invocations, retrieved>>
    /\ UNCHANGED <<part, httpVars, script, step, log, stdout, error, template, prompt,
                   parts, messages, response, thought, result, toolCalls, branch, output>>

\* lines 100-103: chain.invoke: the prompt is formatted, the model answers
\* or cannot be reached, StrOutputParser takes the content
MemInvoke ==
    /\ script = MemScript /\ pc = "formatted"
    /\ LET f == format_messages(prompt, input)
       IN  /\ parts' = f.parts
           /\ messages' = f.messages
           /\ \/ \E r \in Replies :
                   /\ response' = AIMessage(r)
                   /\ result' = StrOutputParser(AIMessage(r))
                   /\ db' = TableAfterInvoke(db, MemQuestion[1], r)
                   /\ pc' = "invoked" /\ error' = error
              \/ /\ pc' = "failed" /\ error' = ModelUnavailable
                 /\ UNCHANGED <<response, result, db>>
    /\ UNCHANGED <<conn, history, workflow_id, classification, service, invocations, retrieved>>
    /\ UNCHANGED <<part, httpVars, script, step, log, stdout, template, prompt, input,
                   thought, toolCalls, branch, output>>

\* lines 105-106
MemPrint ==
    /\ script = MemScript /\ pc = "invoked"
    /\ stdout' = stdout \o << <<"History used", <<Len(history)>> >>, <<"Response", result>> >>
    /\ pc' = "done"
    /\ UNCHANGED storeVars
    /\ UNCHANGED <<part, httpVars, script, step, log, error, template, prompt, input,
                   parts, messages, response, thought, result, toolCalls, branch, output>>

-----------------------------------------------------------------------------
(* 05_service_layer.py: OllamaService wraps the client it is constructed   *)
(* with.  The client is the environment: it records the payloads it is     *)
(* invoked with (as the Mock of test_simple_message does) and answers or   *)
(* raises.                                                                 *)

SvcScript == "05_service_layer"

MaxCalls == 2      \* calls of simple_message on one service object

SvcTexts == {<<"Hi">>, <<"Say hello world in one sentence.">>, <<>>}

\* lines 27-34: __init__ keeps the client and nothing else
OllamaService(llm) == [llm |-> llm]

\* a payload that puts a persona before the text
MessageWithPersona(text) == <<SystemMessage(<<"You are a poet.">>), HumanMessage(text)>>

\* line 52: message = [HumanMessage(content=text)]
Message(text) == <<HumanMessage(text)>>

SvcInit ==
    /\ script = SvcScript
    /\ pc = "start"
    /\ prompt = <<>>
    /\ template = <<>>
    /\ input = <<>>

\* lines 96-103 (in the test lines 203-209): service = OllamaService(llm)
SvcNew ==
    /\ script = SvcScript /\ pc = "start"
    /\ service' = OllamaService("llm")
    /\ pc' = "ready"
    /\ UNCHANGED <<db, conn, history, workflow_id, classification, invocations, retrieved>>
    /\ UNCHANGED <<part, httpVars, script, step, log, stdout, error, template, prompt, input,
                   parts, messages, response, thought, result, toolCalls, branch, output>>

\* lines 36-53: service.simple_message(text): one llm.invoke with the
\* message list; the content of what it returns is returned, what it raises
\* is raised to the caller
SvcSimpleMessage ==
    /\ script = SvcScript /\ pc = "ready" /\ step < MaxCalls
    /\ step' = step + 1
    /\ \E text \in SvcTexts :
          /\ input' = text
          /\ messages' = Message(text)
          /\ invocations' = Append(invocations, [llm |-> service.llm, payload |-> messages'])
    /\ \/ \E r \in Replies :
             /\ response' = AIMessage(r)
             /\ result' = response'.content
             /\ stdout' = Append(stdout, <<"response", result'>>)
             /\ UNCHANGED <<pc, error>>
       \/ /\ pc' = "failed" /\ error' = ModelUnavailable
          /\ UNCHANGED <<response, result, stdout>>
    /\ UNCHANGED <<db, conn, history, workflow_id, classification, service, retrieved>>
    /\ UNCHANGED <<part, httpVars, script, log, template, prompt,
                   parts, thought, toolCalls, branch, output>>

-----------------------------------------------------------------------------
(* 13_langgraph.py: a workflow of two nodes whose steps are saved in the   *)
(* table workflow_steps of workflows.db.  The database file outlives the   *)
(* run, so the table may hold the steps of earlier runs.                   *)

WfScript == "13_langgraph"

\* what str(uuid.uuid4())[:8] may give: an id no earlier run had, or one an
\* earlier run had (eight hexadecimal digits are 32 random bits)
WorkflowIds == {"1f0c9a2e", "abc12345"}

\* line 71
input_text == <<"I need help with my recent order. It hasn't arrived yet.">>

StepRow(id, name, data) == [workflow_id |-> id, step_name |-> name, step_data |-> data]

\* what workflow_steps may hold when the script starts: nothing, the two
\* steps of an earlier run, or the one step of an earlier run that failed in
\* its second node
WfTables ==
    { <<>>,
      << StepRow("abc12345", "classify", [input |-> input_text, output |-> <<"sales">>]),
         StepRow("abc12345", "respond", [classification |-> <<"sales">>, response |-> <<"r1">>]) >>,
      << StepRow("abc12345", "classify", [input |-> input_text, output |-> <<"billing">>]) >> }

\* lines 51-60: save_step appends one row; step_data is the dict as JSON
save_step(rows, id, name, data) == Append(rows, StepRow(id, name, data))

\* lines 74-79
wf_classify_prompt ==
    << Lit("Classify this customer message into one category: 'support', 'sales', or 'general'.\nReturn only the category word.\n\nMessage: "),
       Field("text") >>

\* what the model may answer to the classification prompt
WfReplies ==
    { <<"support">>, <<"Support">>, <<" ", "SALES", "\n">>, <<"general">>,
      <<"billing">>, <<"support", ".">>, <<"\n">>, <<>> }

Whitespace == {" ", "\n"}

RECURSIVE LStrip(_)
LStrip(text) ==
    IF text # <<>> /\ text[1] \in Whitespace THEN LStrip(Tail(text)) ELSE text

RECURSIVE RStrip(_)
RStrip(text) ==
    IF text # <<>> /\ text[Len(text)] \in Whitespace
      THEN RStrip(SubSeq(text, 1, Len(text) - 1)) ELSE text

\* str.strip(): leading and trailing whitespace removed
Strip(text) == RStrip(LStrip(text))

\* str.lower(), chunk by chunk
Lower(text) ==
    [i \in DOMAIN text |->
        CASE text[i] = "Support" -> "support"
          [] text[i] = "SALES" -> "sales"
          [] OTHER -> text[i]]

\* the text of a sequence of chunks is a key of the dict
IsKey(text, keys) == Len(text) = 1 /\ text[1] \in keys

\* lines 89-93
response_prompts ==
    [ support |-> <<"You are a support agent. Address this concern helpfully: ", "{", "text", "}">>,
      sales |-> <<"You are a sales rep. Respond to this inquiry: ", "{", "text", "}">>,
      general |-> <<"You are a helpful assistant. Respond to: ", "{", "text", "}">> ]

\* a selection that answers every message with the general template
GeneralTemplate(c) == response_prompts["general"]

\* line 95: response_prompts.get(classification, response_prompts["general"])
TemplateFor(c) ==
    IF IsKey(c, DOMAIN response_prompts)
      THEN response_prompts[c[1]]
      ELSE response_prompts["general"]

WfInit ==
    /\ script = WfScript
    /\ pc = "start"
    /\ prompt = wf_classify_prompt
    /\ template = TemplateText(wf_classify_prompt)
    /\ input = [text |-> input_text]

\* lines 64-68: init_db creates the table when it is not there; the id of
\* the run is drawn
WfInitDb ==
    /\ script = WfScript /\ pc = "start"
    /\ \E id \in WorkflowIds : workflow_id' = id
    /\ pc' = "ready"
    /\ UNCHANGED <<db, conn, history, classification, service, invocations, retrieved>>
    /\ UNCHANGED <<part, httpVars, script, step, log, stdout, error, template, prompt, input,
                   parts, messages, response, thought, result, toolCalls, branch, output>>

\* lines 81-82: classify_chain.invoke({"text": input_text}).strip().lower()
WfClassify ==
    /\ script = WfScript /\ pc = "ready"
    /\ LET f == format_messages(prompt, input)
       IN  /\ parts' = f.parts
           /\ messages' = f.messages
    /\ log' = Append(log, <<"llm", "classify">>)
    /\ \/ \E r \in WfReplies :
             /\ response' = AIMessage(r)
             /\ classification' = Lower(Strip(StrOutputParser(response')))
             /\ pc' = "classified" /\ error' = error
       \/ /\ pc' = "failed" /\ error' = ModelUnavailable
          /\ UNCHANGED <<response, classification>>
    /\ UNCHANGED <<db, conn, history, workflow_id, service, invocations, retrieved>>
    /\ UNCHANGED <<part, httpVars, script, step, stdout, template, prompt, input,
                   thought, result, toolCalls, branch, output>>

\* lines 84-85: the classify step is saved and printed
WfSaveClassify ==
    /\ script = WfScript /\ pc = "classified"
    /\ db' = save_step(db, workflow_id, "classify",
                       [input |-> input_text, output |-> classification])
    /\ stdout' = Append(stdout, <<"Step 1 - Classification", classification>>)
    /\ pc' = "routing"
    /\ UNCHANGED <<conn, history, workflow_id, classification, service, invocations, retrieved>>
    /\ UNCHANGED <<part, httpVars, script, step, log, error, template, prompt, input,
                   parts, messages, response, thought, result, toolCalls, branch, output>>

\* lines 95-98: the template is picked, the response chain built and invoked
WfRespond ==
    /\ script = WfScript /\ pc = "routing"
    /\ template' = TemplateFor(classification)
    /\ prompt' = from_template(template').pieces
    /\ LET f == format_messages(prompt', input)
       IN  /\ parts' = f.parts
           /\ messages' = f.messages
    /\ log' = Append(log, <<"llm", "respond">>)
    /\ \/ \E r \in Replies :
             /\ response' = AIMessage(r)
             /\ result' = StrOutputParser(response')
             /\ pc' = "responded" /\ error' = error
       \/ /\ pc' = "failed" /\ error' = ModelUnavailable
          /\ UNCHANGED <<response, result>>
    /\ UNCHANGED <<db, conn, history, workflow_id, classification, service, invocations, retrieved>>
    /\ UNCHANGED <<part, httpVars, script, step, stdout, input,
                   thought, toolCalls, branch, output>>

\* lines 100-101: the respond step is saved and printed
WfSaveRespond ==
    /\ script = WfScript /\ pc = "responded"
    /\ db' = save_step(db, workflow_id, "respond",
                       [classification |-> classification, response |-> result])
    /\ stdout' = Append(stdout, <<"Step 2 - Response generated for route", classification>>)
    /\ pc' = "saved"
    /\ UNCHANGED <<conn, history, workflow_id, classification, service, invocations, retrieved>>
    /\ UNCHANGED <<part, httpVars, script, step, log, error, template, prompt, input,
                   parts, messages, response, thought, result, toolCalls, branch, output>>

\* lines 104-107: the final state is printed
WfPrint ==
    /\ script = WfScript /\ pc = "saved"
    /\ stdout' = stdout \o << <<"Workflow completed", <<workflow_id>> >>,
                              <<"Input", input_text>>,
                              <<"Route", classification>>,
                              <<"Response", result>> >>
    /\ pc' = "done"
    /\ UNCHANGED storeVars
    /\ UNCHANGED <<part, httpVars, script, step, log, error, template, prompt, input,
                   parts, messages, response, thought, result, toolCalls, branch, output>>

-----------------------------------------------------------------------------
(* 12_document_retrieval.py: keyword search over the mock document store,  *)
(* then the answer chain.  The query and the contents of the documents are *)
(* sequences of characters, so that split(), lower() and the substring     *)
(* test `word in content` are what they are in the source.  The script     *)
(* calls the search with "What is Python?" and top_k = 2; the function is  *)
(* applied to every query and top_k drawn at the start.                    *)

RagScript == "12_document_retrieval"

MaxWords == 2      \* words of a drawn query
MaxTopK == 4       \* largest top_k drawn; the store has three documents

\* "Python is a high-level programming language created by Guido van Rossum in 1991."
doc1_content ==
    <<"P", "y", "t", "h", "o", "n", " ", "i", "s", " ", "a", " ", "h", "i",
       "g", "h", "-", "l", "e", "v", "e", "l", " ", "p", "r", "o", "g", "r",
       "a", "m", "m", "i", "n", "g", " ", "l", "a", "n", "g", "u", "a", "g",
       "e", " ", "c", "r", "e", "a", "t", "e", "d", " ", "b", "y", " ", "G",
       "u", "i", "d", "o", " ", "v", "a", "n", " ", "R", "o", "s", "s", "u",
       "m", " ", "i", "n", " ", "1", "9", "9", "1", ".">>

\* "FastAPI is a modern web framework for building APIs with Python, known for high performance."
doc2_content ==
    <<"F", "a", "s", "t", "A", "P", "I", " ", "i", "s", " ", "a", " ", "m",
       "o", "d", "e", "r", "n", " ", "w", "e", "b", " ", "f", "r", "a", "m",
       "e", "w", "o", "r", "k", " ", "f", "o", "r", " ", "b", "u", "i", "l",
       "d", "i", "n", "g", " ", "A", "P", "I", "s", " ", "w", "i", "t", "h",
       " ", "P", "y", "t", "h", "o", "n", ",", " ", "k", "n", "o", "w", "n",
       " ", "f", "o", "r", " ", "h", "i", "g", "h", " ", "p", "e", "r", "f",
       "o", "r", "m", "a", "n", "c", "e", ".">>

\* "Vector databases store data as high-dimensional vectors for semantic search."
doc3_content ==
    <<"V", "e", "c", "t", "o", "r", " ", "d", "a", "t", "a", "b", "a", "s",
       "e", "s", " ", "s", "t", "o", "r", "e", " ", "d", "a", "t", "a", " ",
       "a", "s", " ", "h", "i", "g", "h", "-", "d", "i", "m", "e", "n", "s",
       "i", "o", "n", "a", "l", " ", "v", "e", "c", "t", "o", "r", "s", " ",
       "f", "o", "r", " ", "s", "e", "m", "a", "n", "t", "i", "c", " ", "s",
       "e", "a", "r", "c", "h", ".">>

\* lines 29-45
DOCUMENTS ==
    << [id |-> "doc1", content |-> doc1_content, source |-> "programming_guide.txt"],
       [id |-> "doc2", content |-> doc2_content, source |-> "web_frameworks.txt"],
       [id |-> "doc3", content |-> doc3_content, source |-> "databases.txt"] >>

\* the words queries are made of; the empty word leaves two blanks next to
\* each other, or a blank at an end of the query
RagWords ==
    { <<"W", "h", "a", "t">>,
      <<"i", "s">>,
      <<"P", "y", "t", "h", "o", "n", "?">>,
      <<"p", "y", "t", "h", "o", "n">>,
      <<"v", "e", "c", "t", "o", "r">>,
      <<"a">>,
      <<"A", "P", "I", "s">>,
      <<>> }

RECURSIVE JoinWords(_)
\* the words with one blank between them
JoinWords(ws) ==
    IF ws = <<>> THEN <<>>
    ELSE IF Len(ws) = 1 THEN ws[1]
    ELSE ws[1] \o <<" ">> \o JoinWords(Tail(ws))

RagQueries == {JoinWords(ws) : ws \in UNION {[1..n -> RagWords] : n \in 0..MaxWords}}

RagInputs == [query : RagQueries, top_k : (-1)..MaxTopK]

UpperCase == <<"A", "B", "C", "D", "E", "F", "G", "H", "I", "J", "K", "L", "M",
               "N", "O", "P", "Q", "R", "S", "T", "U", "V", "W", "X", "Y", "Z">>
LowerCase == <<"a", "b", "c", "d", "e", "f", "g", "h", "i", "j", "k", "l", "m",
               "n", "o", "p", "q", "r", "s", "t", "u", "v", "w", "x", "y", "z">>

\* str.lower(), character by character
LowerChars(text) ==
    [i \in DOMAIN text |->
        IF \E j \in DOMAIN UpperCase : UpperCase[j] = text[i]
          THEN LowerCase[CHOOSE j \in DOMAIN UpperCase : UpperCase[j] = text[i]]
          ELSE text[i]]

RECURSIVE SplitWords(_, _, _)
\* str.split(): the maximal runs of characters that are not whitespace
SplitWords(text, word, acc) ==
    IF text = <<>> THEN (IF word = <<>> THEN acc ELSE Append(acc, word))
    ELSE IF text[1] \in Whitespace
      THEN SplitWords(Tail(text), <<>>, IF word = <<>> THEN acc ELSE Append(acc, word))
    ELSE SplitWords(Tail(text), Append(word, text[1]), acc)

\* word in text
IsSubstring(word, text) ==
    \E i \in 0..(Len(text) - Len(word)) : SubSeq(text, i + 1, i + Len(word)) = word

\* line 61: the number of words of the query that occur in the content
Score(doc, words) ==
    Cardinality({i \in DOMAIN words : IsSubstring(words[i], LowerChars(doc.content))})

RECURSIVE Scored(_, _)
\* lines 58-63: the documents with a score above 0, each with its score, in
\* store order
Scored(docs, words) ==
    IF docs = <<>> THEN <<>>
    ELSE (IF Score(docs[1], words) > 0
            THEN << [id |-> docs[1].id, content |-> docs[1].content,
                     source |-> docs[1].source, score |-> Score(docs[1], words)] >>
            ELSE <<>>)
         \o Scored(Tail(docs), words)

RECURSIVE InsertBeforeEqual(_, _)
\* an insertion that puts a document before the documents of its score
InsertBeforeEqual(sorted, d) ==
    IF sorted = <<>> THEN <<d>>
    ELSE IF sorted[1].score > d.score
      THEN <<sorted[1]>> \o InsertBeforeEqual(Tail(sorted), d)
    ELSE <<d>> \o sorted

RECURSIVE Insert(_, _)
\* line 64, one element: list.sort is stable, also with reverse=True: a
\* document goes after the documents whose score is not lower than its
Insert(sorted, d) ==
    IF sorted = <<>> THEN <<d>>
    ELSE IF sorted[1].score >= d.score
      THEN <<sorted[1]>> \o Insert(Tail(sorted), d)
    ELSE <<d>> \o sorted

RECURSIVE SortByScore(_, _)
\* line 64: scored.sort(key=lambda x: x["score"], reverse=True)
SortByScore(list, sorted) ==
    IF list = <<>> THEN sorted
    ELSE SortByScore(Tail(list), Insert(sorted, list[1]))

\* line 65: scored[:top_k]; a negative top_k counts from the end
Slice(list, k) ==
    IF k >= 0 THEN SubSeq(list, 1, IF k < Len(list) THEN k ELSE Len(list))
    ELSE SubSeq(list, 1, IF Len(list) + k > 0 THEN Len(list) + k ELSE 0)

\* lines 48-65
mock_similarity_search(query, top_k) ==
    Slice(SortByScore(Scored(DOCUMENTS, SplitWords(LowerChars(query), <<>>, <<>>)), <<>>),
          top_k)

\* lines 82-91
RagPrompt ==
    << Lit("Use the following context to answer the question.\n\nContext:\n"),
       Field("context"), Lit("\n\nQuestion: "), Field("question"), Lit("\n\nAnswer:") >>

RECURSIVE Context(_)
\* lines 76-79: "[source]: content" of every retrieved document, joined by
\* blank lines
Context(docs) ==
    IF docs = <<>> THEN <<>>
    ELSE <<"[", docs[1].source, "]: ">> \o docs[1].content
         \o (IF Len(docs) = 1 THEN <<>> ELSE <<"\n\n">> \o Context(Tail(docs)))

RagInit ==
    /\ script = RagScript
    /\ pc = "start"
    /\ prompt = RagPrompt
    /\ template = TemplateText(RagPrompt)
    /\ input \in RagInputs

\* lines 72-73: retrieved = mock_similarity_search(query, top_k)
RagSearch ==
    /\ script = RagScript /\ pc = "start"
    /\ retrieved' = mock_similarity_search(input.query, input.top_k)
    /\ stdout' = Append(stdout, <<"Retrieved", <<Len(retrieved')>> >>)
    /\ pc' = "retrieved"
    /\ UNCHANGED <<db, conn, history, workflow_id, classification, service, invocations>>
    /\ UNCHANGED <<part, httpVars, script, step, log, error, template, prompt, input,
                   parts, messages, response, thought, result, toolCalls, branch, output>>

\* lines 76-94: the context is formatted and the chain invoked
RagInvoke ==
    /\ script = RagScript /\ pc = "retrieved"
    /\ LET f == format_messages(prompt, [context |-> Context(retrieved),
                                          question |-> input.query])
       IN  /\ parts' = f.parts
           /\ messages' = f.messages
    /\ \/ \E r \in Replies :
             /\ response' = AIMessage(r)
             /\ result' = StrOutputParser(response')
             /\ pc' = "invoked" /\ error' = error
       \/ /\ pc' = "failed" /\ error' = ModelUnavailable
          /\ UNCHANGED <<response, result>>
    /\ UNCHANGED storeVars
    /\ UNCHANGED <<part, httpVars, script, step, log, stdout, template, prompt, input,
                   thought, toolCalls, branch, output>>

\* lines 96-97
RagPrint ==
    /\ script = RagScript /\ pc = "invoked"
    /\ stdout' = stdout \o << <<"Query", input.query>>, <<"Answer", result>> >>
    /\ pc' = "done"
    /\ UNCHANGED storeVars
    /\ UNCHANGED <<part, httpVars, script, step, log, error, template, prompt, input,
                   parts, messages, response, thought, result, toolCalls, branch, output>>

-----------------------------------------------------------------------------
(* 03_usage_metadata.py: the token counts of a response.  usage_metadata   *)
(* of a message is None or a dict; the counts read from it are integers or *)
(* the default 'N/A'.                                                      *)

UsgScript == "03_usage_metadata"

TokenCounts == {0, 32, 45}
UsageKeys == {"input_tokens", "output_tokens"}

\* usage_metadata: None, or a dict with any of the two counts
NoUsage == [none |-> TRUE, d |-> <<>>]
Usage(d) == [none |-> FALSE, d |-> d]
UsageRecords == {NoUsage} \cup {Usage(d) : d \in UNION {[K -> TokenCounts] : K \in SUBSET UsageKeys}}

\* a value read from the dict: a count, or the default 'N/A'
Tok(n) == [na |-> FALSE, n |-> n]
NA == [na |-> TRUE, n |-> 0]

\* dict.get(key, 'N/A')
get(d, key) == IF key \in DOMAIN d THEN Tok(d[key]) ELSE NA

TotalFail == [ok |-> FALSE, val |-> NA]

\* line 41: input_tokens + output_tokens if input_tokens != 'N/A' else 'N/A';
\* an integer plus the string 'N/A' is a TypeError
Total(input_tokens, output_tokens) ==
    IF input_tokens # NA
      THEN IF output_tokens.na THEN TotalFail
           ELSE [ok |-> TRUE, val |-> Tok(input_tokens.n + output_tokens.n)]
      ELSE [ok |-> TRUE, val |-> NA]

\* lines 25-28
UsgMessages ==
    << SystemMessage(<<"You are an assistant who responds in the style of Shakespeare.">>),
       HumanMessage(<<"Write me a very short poem about a happy squirrel">>) >>

UsgInit ==
    /\ script = UsgScript
    /\ pc = "start"
    /\ prompt = <<>>
    /\ template = <<>>
    /\ input = <<>>

\* line 31: response = llm.invoke(messages)
UsgInvoke ==
    /\ script = UsgScript /\ pc = "start"
    /\ messages' = UsgMessages
    /\ \/ \E r \in Replies, u \in UsageRecords :
             /\ response' = [content |-> r, usage_metadata |-> u]
             /\ pc' = "responded" /\ error' = error
       \/ /\ pc' = "failed" /\ error' = ModelUnavailable
          /\ response' = response
    /\ UNCHANGED storeVars
    /\ UNCHANGED <<part, httpVars, script, step, log, stdout, template, prompt, input,
                   parts, thought, result, toolCalls, branch, output>>

\* lines 34-36: the counts and the content are read; None has no get
UsgRead ==
    /\ script = UsgScript /\ pc = "responded"
    /\ IF response.usage_metadata.none
         THEN /\ pc' = "failed"
              /\ error' = Exc("AttributeError", <<"'NoneType' object has no attribute 'get'">>)
              /\ result' = result
         ELSE /\ result' = [input_tokens |-> get(response.usage_metadata.d, "input_tokens"),
                            output_tokens |-> get(response.usage_metadata.d, "output_tokens"),
                            content |-> response.content]
              /\ pc' = "read" /\ error' = error
    /\ UNCHANGED storeVars
    /\ UNCHANGED <<part, httpVars, script, step, log, stdout, template, prompt, input,
                   parts, messages, response, thought, toolCalls, branch, output>>

\* lines 39-42: the two counts are printed, then the total is computed and
\* printed, then the content
UsgPrint ==
    /\ script = UsgScript /\ pc = "read"
    /\ LET t == Total(result.input_tokens, result.output_tokens)
           counts == << <<"Input tokens", result.input_tokens>>,
                        <<"Output tokens", result.output_tokens>> >>
       IN  IF t.ok
             THEN /\ stdout' = stdout \o counts
                                 \o << <<"Total tokens", t.val>>, <<"Content", result.content>> >>
                  /\ pc' = "done" /\ error' = error
             ELSE /\ stdout' = stdout \o counts
                  /\ pc' = "failed"
                  /\ error' = Exc("TypeError",
                                  <<"unsupported operand type(s) for +: 'int' and 'str'">>)
    /\ UNCHANGED storeVars
    /\ UNCHANGED <<part, httpVars, script, step, log, template, prompt, input,
                   parts, messages, response, thought, result, toolCalls, branch, output>>

-----------------------------------------------------------------------------

Init ==
    /\ \/ TplInit
       \/ ChainInit
       \/ ParInit
       \/ JsonInit
       \/ ListInit
       \/ CompInit
       \/ HttpInit
       \/ TwoChainInit
       \/ MemInit
       \/ SvcInit
       \/ WfInit
       \/ RagInit
       \/ UsgInit
    /\ part = 1
    /\ lru_cache = <<>>
    /\ instances = 0
    /\ requests \in IF script = HttpScript THEN HttpRequests ELSE {<<>>}
    /\ step = 0
    /\ log = <<>>
    /\ stdout = <<>>
    /\ error = NoError
    /\ parts = <<>>
    /\ messages = <<>>
    /\ response = NoMessage
    /\ thought = NoDict
    /\ result = <<>>
    /\ toolCalls = <<>>
    /\ branch = [b \in BranchNames |-> Idle]
    /\ output = NoOutput
    /\ db \in IF script = MemScript THEN MemTables
             ELSE IF script = WfScript THEN WfTables ELSE {<<>>}
    /\ conn = IF script = MemScript THEN [r \in Runs |-> NoConn] ELSE <<>>
    /\ history = <<>>
    /\ workflow_id = ""
    /\ classification = <<>>
    /\ service = <<>>
    /\ invocations = <<>>
    /\ retrieved = <<>>

Next ==
    \/ TplFromTemplate
    \/ TplFormat
    \/ TplLlm
    \/ TplPrint
    \/ PromptStep
    \/ LlmStep
    \/ ParserStep
    \/ ChainPrint
    \/ AgentPrint
    \/ AgentDispatch
    \/ FnPrint
    \/ FnDispatch
    \/ ParSubmit
    \/ \E b \in BranchNames : BranchPromptStep(b)
    \/ \E b \in BranchNames : BranchLlmStep(b)
    \/ \E b \in BranchNames : BranchParserStep(b)
    \/ ParCollect
    \/ ParReturn
    \/ ParPrint
    \/ JsonFormat
    \/ JsonLlm
    \/ JsonParse
    \/ JsonPrint
    \/ ListFormat
    \/ ListLlm
    \/ ListParse
    \/ ListPrint
    \/ CompFromMessages
    \/ CompFormat
    \/ CompLlm
    \/ CompPrint
    \/ \E r \in DOMAIN requests : HttpLookup(r)
    \/ \E r \in DOMAIN requests : HttpConstruct(r)
    \/ \E r \in DOMAIN requests : HttpHandle(r)
    \/ TwoChainPromptStep
    \/ TwoChainLlmStep
    \/ TwoChainParserStep
    \/ SeqNext
    \/ SeqPrint
    \/ RouteDispatch
    \/ RoutePrint
    \/ \E r \in Runs : InitDbConnect(r)
    \/ \E r \in Runs : InitDbCount(r)
    \/ \E r \in Runs : InitDbInsert(r)
    \/ \E r \in Runs : InitDbBusy(r)
    \/ \E r \in Runs : InitDbCommit(r)
    \/ MemGetHistory
    \/ MemFormatHistory
    \/ MemInvoke
    \/ MemPrint
    \/ SvcNew
    \/ SvcSimpleMessage
    \/ WfInitDb
    \/ WfClassify
    \/ WfSaveClassify
    \/ WfRespond
    \/ WfSaveRespond
    \/ WfPrint
    \/ RagSearch
    \/ RagInvoke
    \/ RagPrint
    \/ UsgInvoke
    \/ UsgRead
    \/ UsgPrint

Spec == Init /\ [][Next]_vars

-----------------------------------------------------------------------------
(* Properties of the agent (10_agents.py) and of the function router       *)
(* (09_functions.py).                                                      *)

Count(seq, what) == Cardinality({i \in DOMAIN seq : seq[i][1] = what})
Has(d, k, v) == k \in DOMAIN d /\ d[k] = v
Printed(text) == \E i \in DOMAIN stdout : stdout[i][2] = text

\* the parsed decision says final_answer and carries a text
SaysFinalAnswer ==
    /\ script = AgentScript
    /\ Has(thought, "action", JStr("final_answer"))
    /\ "final_answer" \in DOMAIN thought /\ thought["final_answer"].t = "str"

\* the parsed decision says use_tool and names a tool of the registry
SaysKnownTool ==
    /\ script = AgentScript
    /\ Has(thought, "action", JStr("use_tool"))
    /\ "tool_name" \in DOMAIN thought
    /\ thought["tool_name"].t = "str" /\ thought["tool_name"].s \in tools

\* C1: a run whose decision is final_answer with text t ends in done, gives t
\* back, and invokes no tool.
C1_FinalAnswerReturned ==
    (SaysFinalAnswer /\ pc \in Terminal)
        => /\ pc = "done"
           /\ Printed(<<thought["final_answer"].s>>)
           /\ toolCalls = <<>>

\* C2: a run whose decision is use_tool with a tool of the registry invokes
\* exactly that tool, exactly once, with the decision's tool_input (no
\* arguments when the decision gives none), and no other tool.
C2_NamedToolInvokedOnce ==
    (SaysKnownTool /\ "thought" \in DOMAIN thought /\ pc \in Terminal)
        => /\ Len(toolCalls) = 1
           /\ toolCalls[1].tool = thought["tool_name"].s
           /\ toolCalls[1].args = IF Has(thought, "tool_input", JNull)
                                     \/ "tool_input" \notin DOMAIN thought
                                    THEN {} ELSE thought["tool_input"].o

\* steps the agent script has left at most
Remaining ==
    CASE pc = "invoke" -> 5 - step
      [] pc = "invoked" -> 2
      [] pc = "printed" -> 1
      [] OTHER -> 0

AgentOneRound ==
    script = AgentScript =>
        /\ Count(log, "llm") <= 1
        /\ Len(toolCalls) <= 1
        /\ Count(log, "tool") = Len(toolCalls)
        /\ (pc \in Terminal => Count(log, "llm") = 1)
        /\ (toolCalls # <<>> => /\ pc \in Terminal
                                /\ log[Len(log)][1] = "tool"
                                /\ Count(log, "llm") = 1)

C4_LoopsUntilFinalAnswer ==
    (script = AgentScript /\ pc = "done" /\ toolCalls # <<>>)
        => /\ \E i, j \in DOMAIN log : i < j /\ log[i][1] = "tool" /\ log[j][1] = "llm"
           /\ Has(thought, "action", JStr("final_answer"))

\* C5: in the agent and in the function router, a decision that names a tool
\* or function the registry does not have ends in a failure; it is not
\* skipped, and the run does not end as if it had succeeded.
C5_UnknownToolFails ==
    /\ (/\ script = AgentScript /\ pc \in Terminal
        /\ Has(thought, "action", JStr("use_tool"))
        /\ "tool_name" \in DOMAIN thought
        /\ thought["tool_name"].t = "str"
        /\ thought["tool_name"].s \notin tools \cup {""})
            => pc = "failed" /\ error.kind = "KeyError"
    /\ (/\ script = FnScript /\ pc \in Terminal
        /\ "function_name" \in DOMAIN result
        /\ result["function_name"].t = "str"
        /\ result["function_name"].s \notin function_map)
            => pc = "failed" /\ error.kind = "KeyError"

-----------------------------------------------------------------------------
(* Properties of the pipelines (05_chains.py, 06_1_parallel_runnable.py)   *)
(* and of template resolution (03_prompt_templates.py).                    *)

RECURSIVE StepsOf(_, _)
\* the steps a pipeline has run, in order: by = "main" or a branch name
StepsOf(by, events) ==
    IF events = <<>> THEN <<>>
    ELSE (IF events[1][2] = by THEN <<events[1][1]>> ELSE <<>>)
         \o StepsOf(by, Tail(events))

IsPrefix(a, b) == Len(a) <= Len(b) /\ \A i \in DOMAIN a : a[i] = b[i]

\* C6: in a pipeline the template is resolved, then the model is called, then
\* the parser runs, each at most once; without a parser the text the model
\* returned comes out as it is.
C6_PipelineOrder ==
    /\ script \in ChainScripts =>
           IsPrefix(StepsOf("main", log), <<"prompt", "llm", "parser">>)
    /\ script = ParScript =>
           \A b \in BranchNames :
               IsPrefix(StepsOf(b, log), <<"prompt", "llm", "parser">>)
    /\ script = TplScript =>
           /\ IsPrefix(StepsOf("main", log), <<"prompt", "llm">>)
           /\ pc = "done" => stdout = << <<"", response.content>> >>
    /\ (script = ChainScript /\ pc \in {"invoked", "done"}) =>
           /\ StepsOf("main", log) = <<"prompt", "llm", "parser">>
           /\ result = response.content

C6_Witness == script = ChainScript /\ pc = "done" /\ result = <<"r1">>

Through(b) == branch[b].state \in {"ok", "failed"}
Position(e) == CHOOSE i \in DOMAIN log : log[i] = e

\* C7: parallel_chain.invoke comes back only when every branch is through,
\* and when it returns a mapping, the mapping has every branch name and no
\* other, each with the result of its own branch.
C7_JoinsAllBranches ==
    (script = ParScript /\ pc \in {"invoked", "done", "failed"}) =>
        /\ \A b \in BranchNames : Through(b)
        /\ pc # "failed" =>
              /\ DOMAIN result = BranchNames
              /\ \A b \in BranchNames :
                    /\ branch[b].state = "ok"
                    /\ result[b] = branch[b].response.content

\* both succeed, the branch given second finishing first
C7_Witness ==
    /\ script = ParScript /\ pc = "done"
    /\ result["joke"] # result["fact"]
    /\ Position(<<"parser", "fact">>) < Position(<<"llm", "joke">>)

\* C8: when the model call of a branch fails, parallel_chain.invoke fails
\* with one failure that names a failed branch, and returns no mapping.
C8_FailureNamesBranch ==
    (/\ script = ParScript /\ pc \in Terminal
     /\ \E b \in BranchNames : branch[b].err = ModelUnavailable)
        => /\ pc = "failed"
           /\ result = <<>>
           /\ \E b \in BranchNames :
                 /\ branch[b].state = "failed"
                 /\ \E i \in DOMAIN error.message : error.message[i] = b

\* C9: every branch is given the same input mapping, and what a branch
\* produces is what it produces alone on that input: its own prompt on that
\* input, and the text of its own model reply.
C9_BranchesIndependent ==
    script = ParScript =>
        \A b \in BranchNames :
            /\ branch[b].step >= 1 => branch[b].got = <<input>>
            /\ branch[b].state = "ok" =>
                  /\ branch[b].messages =
                        <<HumanMessage(<<BranchPrompt(b)[1].x>> \o input.topic)>>
                  /\ branch[b].out = branch[b].response.content
            /\ (pc \in {"invoked", "done"}) => result[b] = branch[b].out

\* both branches ran interleaved and got different replies
C9_Witness ==
    /\ script = ParScript /\ pc = "done"
    /\ result["joke"] = <<"r2">> /\ result["fact"] = <<"r1">>
    /\ Position(<<"prompt", "fact">>) < Position(<<"prompt", "joke">>)
    /\ Position(<<"llm", "joke">>) < Position(<<"llm", "fact">>)

BraceFree(text) == \A i \in DOMAIN text : text[i] \notin {"{", "}"}

Formatted == script = TplScript /\ StepsOf("main", log) # <<>>

\* C10: when the variables given are exactly the placeholders of the
\* template, format_messages succeeds and every placeholder is replaced by
\* the value of its name: the payload holds the literal parts and the values,
\* in order, and no placeholder; brace-free literals and values give a
\* brace-free payload.
C10_AllPlaceholdersResolved ==
    (Formatted /\ DOMAIN input = InputVariables(prompt)) =>
        /\ error.kind \notin {"KeyError", "ValueError"}
        /\ Len(messages) = 1
        /\ Len(parts) = Len(prompt)
        /\ \A i \in DOMAIN prompt :
              parts[i] = IF prompt[i].k = "field"
                           THEN [k |-> "val", text |-> input[prompt[i].x]]
                           ELSE [k |-> "lit", text |-> <<prompt[i].x>>]
        /\ messages[1] = [role |-> "human", content |-> Flatten(parts)]
        /\ ((\A i \in DOMAIN prompt : prompt[i].k = "lit" => BraceFree(<<prompt[i].x>>))
            /\ (\A n \in DOMAIN input : BraceFree(input[n])))
               => BraceFree(messages[1].content)

\* a placeholder used twice and a second placeholder, all given
C10_Witness ==
    /\ Formatted /\ pc = "formatted"
    /\ prompt = <<Field("x"), Field("y"), Field("x")>>
    /\ DOMAIN input = {"x", "y"}

\* the first placeholder of the pattern, left to right, that has no value
FirstUnresolved ==
    LET open == {i \in DOMAIN prompt : prompt[i].k = "field" /\ prompt[i].x \notin DOMAIN input}
    IN  prompt[CHOOSE i \in open : \A j \in open : i <= j].x

\* C11: when the variables given lack a placeholder of the template,
\* format_messages fails with KeyError, the error names the first placeholder
\* of the pattern that has no value, no payload is produced, and the model is
\* not called.
C11_MissingVariableFails ==
    (Formatted /\ InputVariables(prompt) \ DOMAIN input # {}) =>
        /\ pc = "failed"
        /\ error = Exc("KeyError", <<FirstUnresolved>>)
        /\ messages = <<>>
        /\ Count(log, "llm") = 0
        /\ response = NoMessage /\ stdout = <<>>

\* two placeholders without a value, the second of the alphabet first
C11_Witness ==
    /\ Formatted /\ pc = "failed"
    /\ prompt = <<Field("y"), Lit("a"), Field("x")>>
    /\ input = NoDict
    /\ error.message = <<"y">>

-----------------------------------------------------------------------------
(* Properties of output parsing (JsonOutputParser with a pydantic model).  *)

RECURSIVE DictOf(_)
\* the value a sequence of members stands for
DictOf(pairs) ==
    IF pairs = <<>> THEN NoDict
    ELSE LET k == pairs[Len(pairs)][1]
             front == DictOf(SubSeq(pairs, 1, Len(pairs) - 1))
         IN  [x \in DOMAIN front \cup {k} |-> IF x = k THEN pairs[Len(pairs)][2] ELSE front[x]]

\* a scalar of the declared type; None only where the field has a default
ScalarOk(v, fld) ==
    \/ v.t = "null" /\ ~fld.required
    \/ fld.type = "str" /\ v.t = "str"
    \/ fld.type \in {"int", "float"} /\ v.t = "num"
    \/ fld.type = "bool" /\ v.t = "bool"

\* the members of a nested object conform to the inner model
NestedOk(o, S) ==
    /\ \A m \in o : m[1] \in DOMAIN S /\ ScalarOk(Scalar(m[2]), S[m[1]])
    /\ \A f \in DOMAIN S : S[f].required => Member(o, f) # {}

TypeOk(v, fld) ==
    IF fld.type \in {"Address", "ContactAddress"}
      THEN \/ v.t = "null" /\ ~fld.required
           \/ v.t = "obj" /\ NestedOk(v.o, Inner(fld.type))
    ELSE IF fld.type = "dict" THEN v.t = "obj" \/ (v.t = "null" /\ ~fld.required)
    ELSE ScalarOk(v, fld)

\* d is a value of the model S
Conforms(d, S) ==
    /\ DOMAIN d \subseteq DOMAIN S
    /\ \A f \in DOMAIN S : IF f \in DOMAIN d THEN TypeOk(d[f], S[f]) ELSE ~S[f].required

\* the response text has no member named f
Omits(content, f) ==
    ~\E i \in 1..(Len(content) - 1) : content[i] = f /\ content[i + 1] = ":"

\* the parser of the running part has been applied to the reply
ParseTried == script \in JsonScripts /\ Count(log, "parser") = part
ParseFailed == error.kind = "OutputParserException"

\* C12: when the parser hands out a result, no field of the model is missing
\* from it: a reply that omits a required field is a parse error, and an
\* optional field the reply omits is in the result, as null.
C12_RequiredFieldsEnforced ==
    /\ (script = AgentScript /\ pc = "invoked") =>
          \A f \in DOMAIN AgentThought :
              Omits(response.content, f) =>
                  ~AgentThought[f].required /\ Has(thought, f, JNull)
    /\ (ParseTried /\ ~ParseFailed) =>
          \A f \in DOMAIN pydantic_object(script, part) :
              Omits(response.content, f) =>
                  ~pydantic_object(script, part)[f].required /\ Has(result, f, JNull)

\* C13: a reply that is the JSON text of a value of the model parses, and
\* the result has every field of the value with the value's content, a field
\* the text leaves out counting as null.
C13_RoundTrip ==
    ParseTried =>
        \A p \in JsonPairs(script, part) :
            (Conforms(DictOf(p), pydantic_object(script, part))
             /\ response.content = WriteJson(p)) =>
                /\ ~ParseFailed
                /\ DOMAIN result \subseteq DOMAIN pydantic_object(script, part)
                /\ \A f \in DOMAIN pydantic_object(script, part) :
                      Get(result, f) = Get(DictOf(p), f)

\* a contact with a nested address, a null and a field left out
C13_Witness ==
    /\ script = Json7Script /\ part = 3 /\ pc = "print"
    /\ response.content =
          WriteJson(<< <<"name", JNull>>,
                       <<"address", JObj({<<"city", "Springfield">>,
                                          <<"zip_code", "62701">>})>> >>)
    /\ result["address"].o = {<<"city", "Springfield">>, <<"zip_code", "62701">>}

\* the reply has a headquarters object with a member of the wrong type
NestedMismatch ==
    \E p \in CompanyPairs :
        /\ response.content = WriteJson(p)
        /\ "headquarters" \in DOMAIN DictOf(p)
        /\ DictOf(p)["headquarters"].t = "obj"
        /\ \E m \in DictOf(p)["headquarters"].o :
              m[1] \in DOMAIN Address /\ ~ScalarOk(Scalar(m[2]), Address[m[1]])

\* C15: in 04_3_nested_json.py a successful parse gives a result whose
\* headquarters is a structure of the Address model (the reply with name Acme
\* and city Reno gives result.headquarters.city = Reno), and a reply with a
\* value of the wrong type inside headquarters is a parse error.
C15_NestedConforms ==
    (ParseTried /\ script = NestedScript) =>
        /\ (~ParseFailed /\ "headquarters" \in DOMAIN result) =>
              /\ result["headquarters"].t = "obj"
              /\ \A m \in result["headquarters"].o :
                    m[1] \in DOMAIN Address /\ ScalarOk(Scalar(m[2]), Address[m[1]])
        /\ response.content = WriteJson(<< <<"name", JStr("Acme")>>,
                                           <<"headquarters", JObj({<<"city", "Reno">>})>> >>)
              => /\ ~ParseFailed
                 /\ Member(result["headquarters"].o, "city") = {"Reno"}
        /\ NestedMismatch => ParseFailed

-----------------------------------------------------------------------------
(* Properties of the list parser (04_1_comma_separated_list.py).           *)

ListParsed == script = ListScript /\ pc \in {"print", "done"}

\* the text of one line: no line break in it
OneLine(text) == \A i \in DOMAIN text : text[i] # "\n"
Commas(text) == Cardinality({i \in DOMAIN text : text[i] = ","})

\* C14: a reply that is a list of items separated by ", " parses to these
\* items, in their order and number ("Python, JavaScript, Go" gives the
\* three items, the first being Python); a one-line reply gives one item
\* more than it has commas; the parser does not fail, and the script fails
\* after the model's reply only when the reply has no item at all.
C14_ListParser ==
    script = ListScript =>
        /\ ListParsed =>
              /\ \A l \in ItemLists :
                    response.content = CommaJoin(l) =>
                        /\ result = l
                        /\ Len(result) = Len(l) /\ result[1] = l[1]
              /\ (response.content # <<>> /\ OneLine(response.content)) =>
                    Len(result) = Commas(response.content) + 1
        /\ (Count(log, "parser") = 0 /\ pc = "failed") => error.kind # "IndexError"
        /\ (Count(log, "parser") = 1 /\ pc = "failed") =>
              /\ error.kind = "IndexError"
              /\ \A i \in DOMAIN response.content : response.content[i] = "\n"

C14_Witness ==
    /\ script = ListScript /\ pc = "done"
    /\ response.content = <<"Python", ",", " ", "JavaScript", ",", " ", "Go">>
    /\ result = << <<"Python">>, <<"JavaScript">>, <<"Go">> >>
    /\ Printed(<<"Python">>)

-----------------------------------------------------------------------------
(* Properties of prompt composition (03_4_prompt_composition.py,           *)
(* 03_2_chat_prompt_templates.py).                                         *)

Composed == script \in CompScripts /\ pc \in {"formatted", "replied", "done"}

\* C16: the payload of a composed prompt has one entry for each message
\* template the caller listed, in the order of the list, each with the role
\* and the formatted text of its template; the system entry comes before
\* every human entry.
C16_ComposedInOrder ==
    Composed =>
        /\ Len(messages) = Len(Components(script))
        /\ \A i \in DOMAIN messages :
              /\ messages[i].role = Components(script)[i].role
              /\ messages[i].content =
                    Flatten(FormatPieces(Components(script)[i].pieces, input, <<>>).out)
        /\ \A i, j \in DOMAIN messages :
              (messages[i].role = "system" /\ messages[j].role = "human") => i < j

\* system, context and question, in this order
C16_Witness ==
    /\ script = CompScript /\ pc = "done"
    /\ Len(messages) = 3
    /\ messages[1].role = "system" /\ messages[2].role = "human"
    /\ messages[2].content = <<"Context: ", "The client is 35 years old">>
    /\ messages[3].content[1] = "Question: "

-----------------------------------------------------------------------------
(* Properties of the HTTP service (06_dependency_injection.py).            *)

Answered(r) == script = HttpScript /\ requests[r].state = "answered"

\* C17: a request whose model call failed is answered 503, and a request
\* whose handler failed in another way is answered with a client error
\* (4xx), not with 503.
C17_ErrorsTranslated ==
    \A r \in DOMAIN requests :
        (Answered(r) /\ requests[r].raised # NoError) =>
            IF requests[r].raised = ModelUnavailable
              THEN requests[r].status = 503
              ELSE requests[r].status \in 400..499

\* C18: at most one client is ever constructed, and every request that has
\* its client has that one.
C18_OneSharedClient ==
    script = HttpScript =>
        /\ instances <= 1
        /\ \A r, q \in DOMAIN requests :
              (requests[r].llm # 0 /\ requests[q].llm # 0) => requests[r].llm = requests[q].llm

-----------------------------------------------------------------------------
(* Properties of sequential composition (05_1_sequential_chains.py) and of *)
(* routing (11_routing.py).                                                *)

By(name) == {i \in DOMAIN log : log[i][2] = name}

SeqOrdered ==
    script = SeqScript =>
        /\ \A i \in By("chain2") : \E j \in By("chain1") : j < i /\ log[j][1] = "parser"
        /\ By("chain2") # {} => part = 2
        /\ part = 2 =>
              /\ StepsOf("chain1", log) = <<"prompt", "llm", "parser">>
              /\ DOMAIN input = {"topic"}
              /\ stdout[1] = <<"Generated topic", input.topic>>
        /\ (part = 2 /\ step >= 1) =>
              messages = <<HumanMessage(<<prompt2[1].x>> \o stdout[1][2])>>
        /\ (part = 1 /\ pc = "invoked") => result = response.content
        /\ (part = 1 /\ pc = "failed") => By("chain2") = {}

\* C19: chain2 is invoked only after chain1 has returned, its topic is
\* exactly what chain1 returned, and when chain1 fails the script ends there:
\* chain2 is never invoked.
C19_SecondAfterFirst ==
    /\ []SeqOrdered
    /\ [][script = SeqScript =>
            /\ (part = 1 /\ part' = 2) =>
                  pc = "invoked" /\ input' = [topic |-> result] /\ result = response.content
            /\ pc # "failed"]_vars

\* chain1 returned r1, chain2 wrote about r1 and returned r2
C19_Witness ==
    /\ script = SeqScript /\ pc = "done"
    /\ stdout = << <<"Generated topic", <<"r1">> >>, <<"Explanation", <<"r2">> >> >>
    /\ messages[1].content = <<"Write a brief 2-sentence explanation about: ", "r1">>

\* C20: whenever the classifier has given a classification with a category (a text),
\* the question goes to a prompt: to the prompt of the category when it is
\* one of the three, to a fallback otherwise; the script does not end
\* without having invoked the response chain.
C20_EveryQuestionRouted ==
    (/\ script = RouteScript /\ pc \in Terminal
     /\ "category" \in DOMAIN thought /\ thought["category"].t = "str") =>
        /\ By("chain2") # {}
        /\ thought["category"].s \in prompts => prompt = PromptFor(thought["category"].s)
        /\ pc = "done" => \E i \in DOMAIN stdout : stdout[i][1] = "Response"

-----------------------------------------------------------------------------
(* Properties of the conversation memory (07_memory.py).                   *)

MaxWindow == 3      \* the largest window looked for in the prompt

\* the last k of the rows, in their order
LastK(rows, k) ==
    IF Len(rows) <= k THEN rows ELSE SubSeq(rows, Len(rows) - k + 1, Len(rows))

\* the chain has formatted its prompt
MemPrompted == script = MemScript /\ pc \in {"invoked", "done"}

\* C21: the history in the prompt is windowed: there is a window K such that
\* the prompt holds the last min(n, K) of the n messages get_history found
\* in the store, in their stored order.
C21_HistoryWindowed ==
    MemPrompted =>
        \E K \in 1..MaxWindow : parts[2].text = format_history(LastK(history, K))

\* no run of init_db has overlapped another one
Sequential == \A r \in Runs : ~conn[r].overlap

\* C25: init_db run sequentially is idempotent: a call that finds the table
\* empty leaves the four sample messages in their order, a call that finds
\* rows leaves the table as it is; so after any number of calls the table is
\* the sample history or what it was before the first call.
C25_InitDbIdempotent ==
    /\ [](script = MemScript /\ Sequential /\ (\E r \in Runs : conn[r].pc = "closed")
            /\ (\A r \in Runs : conn[r].pc \notin Inside)
          => db \in MemTables \ {<<>>})
    /\ [][\A r \in Runs :
            (script = MemScript /\ conn[r].pc \in Inside /\ conn'[r].pc = "closed"
               /\ ~conn[r].overlap) =>
                db' = IF db = <<>> THEN SampleMessages ELSE db]_vars

\* a fresh database, two runs one after the other: the first seeded the
\* table, the second counted four rows and inserted nothing
C25_Witness ==
    /\ script = MemScript /\ Sequential
    /\ \A r \in Runs : conn[r].pc = "closed"
    /\ conn[1].count = 0 /\ conn[2].count = Len(SampleMessages)
    /\ db = SampleMessages

\* C26: runs of init_db that overlap on an empty database seed the sample
\* history at most once: the first sample message is never stored twice.
C26_SeededAtMostOnce ==
    script = MemScript =>
        Cardinality({i \in DOMAIN db : db[i] = SampleMessages[1]}) <= 1

\* C27: the steps that continue the conversation (get_history,
\* format_history, chain.invoke, the prints) leave the messages table as it
\* is: neither the question nor the response is stored.
C27_TableUnchanged ==
    [][(script = MemScript /\ pc \in {"initialized", "history", "formatted", "invoked"}
          /\ pc' # pc) => db' = db]_vars

\* the conversation was continued over the sample history and answered
C27_Witness ==
    /\ script = MemScript /\ pc = "done"
    /\ history = SampleMessages /\ db = SampleMessages
    /\ result = <<"r1">>
    /\ stdout = << <<"History used", <<4>> >>, <<"Response", <<"r1">> >> >>

-----------------------------------------------------------------------------
(* Properties of the service layer (05_service_layer.py).                  *)

\* a call of simple_message has been made in this step
SvcCalled == script = SvcScript /\ step' = step + 1

\* C22: every call of simple_message invokes the client exactly once, with
\* one human message holding the given text; what it returns is the content
\* of the client's response; the service object is the same before and after
\* the call.
C22_SimpleMessage ==
    [][SvcCalled =>
         /\ Len(invocations') = Len(invocations) + 1
         /\ SubSeq(invocations', 1, Len(invocations)) = invocations
         /\ invocations'[Len(invocations')] =
               [llm |-> service.llm, payload |-> <<[role |-> "human", content |-> input']>>]
         /\ pc' # "failed" => result' = response'.content /\ stdout'[Len(stdout')][2] = result'
         /\ service' = service]_vars

\* two calls with different texts, answered differently: the second call
\* was made with its own text only
C22_Witness ==
    /\ script = SvcScript /\ step = 2 /\ pc = "ready"
    /\ invocations = << [llm |-> "llm", payload |-> <<[role |-> "human", content |-> <<"Hi">>]>>],
                        [llm |-> "llm", payload |-> <<[role |-> "human", content |-> <<>>]>>] >>
    /\ stdout = << <<"response", <<"r1">> >>, <<"response", <<"r2">> >> >>

-----------------------------------------------------------------------------
(* Properties of the workflow (13_langgraph.py).                           *)

RECURSIVE StoredSteps(_, _)
\* the step names stored under a workflow id, in id order
StoredSteps(id, rows) ==
    IF rows = <<>> THEN <<>>
    ELSE (IF rows[1].workflow_id = id THEN <<rows[1].step_name>> ELSE <<>>)
         \o StoredSteps(id, Tail(rows))

\* the second model call of the run has failed
SecondCallFailed ==
    script = WfScript /\ pc = "failed" /\ log = << <<"llm", "classify">>, <<"llm", "respond">> >>

\* C23: the steps stored under a workflow id are always a prefix of
\* classify, respond (so respond is never stored without classify before
\* it), and when the second model call has failed the steps stored under
\* the id of the run are the classify step alone.
C23_StepsInNodeOrder ==
    script = WfScript =>
        /\ \A id \in WorkflowIds : IsPrefix(StoredSteps(id, db), <<"classify", "respond">>)
        /\ SecondCallFailed => StoredSteps(workflow_id, db) = <<"classify">>

\* the literal part of the template of a category
Opening(category) == response_prompts[category][1]

\* the category whose template line 95 has to pick
RouteOf(c) ==
    IF c = <<"support">> THEN "support"
    ELSE IF c = <<"sales">> THEN "sales"
    ELSE "general"

\* C24: the response prompt is the template of the classification when that
\* is support, sales or general and the general template otherwise; the
\* respond step and the printed route carry the classification string as it
\* is, also when the general template answered for it.
C24_RouteAndTemplate ==
    /\ (script = WfScript /\ pc \in {"responded", "saved", "done"}) =>
          /\ template = response_prompts[RouteOf(classification)]
          /\ messages = <<HumanMessage(<<Opening(RouteOf(classification))>> \o input_text)>>
    /\ (script = WfScript /\ pc \in {"saved", "done"}) =>
          db[Len(db)] = StepRow(workflow_id, "respond",
                            [classification |-> classification, response |-> result])
    /\ (script = WfScript /\ pc = "done") =>
          stdout[5] = <<"Route", classification>>

\* the model said billing: the general template answered, the route stored
\* and printed is billing
C24_Witness ==
    /\ script = WfScript /\ pc = "done"
    /\ classification = <<"billing">>
    /\ messages[1].content = <<"You are a helpful assistant. Respond to: ">> \o input_text
    /\ db[Len(db)].step_data.classification = <<"billing">>
    /\ stdout[5] = <<"Route", <<"billing">> >>

-----------------------------------------------------------------------------
(* Properties of the similarity search (12_document_retrieval.py).         *)

\* the search has returned, for a top_k that is not negative
Searched == script = RagScript /\ pc # "start" /\ input.top_k >= 0

\* the place of a document in the store
StorePosition(id) == CHOOSE i \in DOMAIN DOCUMENTS : DOCUMENTS[i].id = id

\* the keyword score of a document of the store for the query
KeywordScore(i) == Score(DOCUMENTS[i], SplitWords(LowerChars(input.query), <<>>, <<>>))

Returned == {retrieved[i].id : i \in DOMAIN retrieved}

\* C28: for a top_k of 0 or more the result has at most top_k documents,
\* each a document of the store with its keyword score, which is above 0;
\* scores do not increase along the result and documents of equal score
\* stand in store order; no document left out has a higher score than a
\* returned one.
C28_RankedTopK ==
    Searched =>
        /\ Len(retrieved) <= input.top_k
        /\ \A i \in DOMAIN retrieved :
              /\ \E j \in DOMAIN DOCUMENTS :
                    /\ DOCUMENTS[j].id = retrieved[i].id
                    /\ DOCUMENTS[j].content = retrieved[i].content
                    /\ KeywordScore(j) = retrieved[i].score
              /\ retrieved[i].score > 0
        /\ \A i, j \in DOMAIN retrieved :
              i < j =>
                 \/ retrieved[i].score > retrieved[j].score
                 \/ /\ retrieved[i].score = retrieved[j].score
                    /\ StorePosition(retrieved[i].id) < StorePosition(retrieved[j].id)
        /\ \A j \in DOMAIN DOCUMENTS :
              DOCUMENTS[j].id \notin Returned =>
                 \A i \in DOMAIN retrieved : KeywordScore(j) <= retrieved[i].score

\* "vector a" with top_k = 2: doc3 has both words and comes first, doc1 and
\* doc2 have one each, doc1 is returned and doc2 left out
C28_Witness ==
    /\ script = RagScript /\ pc # "start"
    /\ input.top_k = 2
    /\ Len(retrieved) = 2
    /\ retrieved[1].id = "doc3" /\ retrieved[1].score = 2
    /\ retrieved[2].id = "doc1" /\ retrieved[2].score = 1

-----------------------------------------------------------------------------
(* Properties of the usage report (03_usage_metadata.py).                  *)

\* the response came with a usage record and the script has ended
UsageReported ==
    script = UsgScript /\ pc \in Terminal /\ response # NoMessage
      /\ ~response.usage_metadata.none

\* C29: whatever counts the usage record of the response holds, the total
\* is displayed: the sum when both counts are there, N/A when one of them
\* is not; computing it does not fail.
C29_TotalNeverFails ==
    UsageReported =>
        LET d == response.usage_metadata.d
        IN  /\ pc = "done"
            /\ stdout[3] = <<"Total tokens",
                             IF DOMAIN d = UsageKeys
                               THEN Tok(d["input_tokens"] + d["output_tokens"])
                               ELSE NA>>

====
